---- MODULE Spec2Model ----
(***************************************************************************)
(* A model of the redux store engine (createStore.js), the reducer         *)
(* combinator (combineReducers) and the plain-object validator.            *)
(*                                                                         *)
(* JavaScript is single threaded, but reducers and listeners are user      *)
(* callbacks that may call back into the store.  The model therefore keeps *)
(* the call stack explicitly: the frame on top of `stack` is the code that *)
(* is running, and the user code of that frame (top-level caller, reducer  *)
(* or listener) may perform any store call.                                *)
(***************************************************************************)
EXTENDS Integers, Sequences, FiniteSets, TLC

\* ------------------------------------------------------------------ bounds
MaxCalls == 4       \* calls of subscribe and dispatch that pass their checks;
                    \* with middleware, calls of the composed dispatch and the
                    \* calls of next a free stage makes
MaxKeys == 2        \* entries of the mapping passed to combineReducers
MaxMiddleware == 2  \* middlewares passed to applyMiddleware
MaxFuncs == 3       \* functions passed to compose

\* ------------------------------------------------------------------ values
\* JavaScript values are tagged records; `k` is compared first.
Undefined == [k |-> "undefined", v |-> 0]
Num(n) == [k |-> "num", v |-> n]
Str(s) == [k |-> "str", v |-> s]
Obj(f) == [k |-> "obj", v |-> f]
EmptyObj == Obj([x \in {} |-> Undefined])

\* The private action types of utils/actionTypes.
INIT == "@@redux/INIT"
REPLACE == "@@redux/REPLACE"
PROBE_UNKNOWN_ACTION == "@@redux/PROBE_UNKNOWN_ACTION"

\* An action value: what kind of JavaScript value it is, and its `type`
\* property ("undefined" when the property is missing).
Action(shape, type) == [shape |-> shape, type |-> type]

\* ---------------------------------------------------------- isPlainObject
TypeOf(shape) ==
  CASE shape = "function" -> "function"
    [] shape = "undefined" -> "undefined"
    [] OTHER -> "object"

\* Object.getPrototypeOf on the objects and prototypes of the model.
GetPrototypeOf(o) ==
  CASE o = "plain" -> "Object.prototype"
    [] o = "array" -> "Array.prototype"
    [] o = "instance" -> "Class.prototype"
    [] o = "foreign" -> "Foreign.Object.prototype"
    [] o = "Array.prototype" -> "Object.prototype"
    [] o = "Class.prototype" -> "Object.prototype"
    [] OTHER -> "null"

RECURSIVE ProtoChainEnd(_)
ProtoChainEnd(proto) ==
  IF GetPrototypeOf(proto) # "null"
  THEN ProtoChainEnd(GetPrototypeOf(proto))
  ELSE proto

\* isPlainObject that only looks at typeof.
isPlainObject_TypeofOnly(obj) == TypeOf(obj) = "object" /\ obj # "null"

isPlainObject(obj) ==
  IF TypeOf(obj) # "object" \/ obj = "null"
  THEN FALSE
  ELSE GetPrototypeOf(obj) = ProtoChainEnd(obj)

\* ----------------------------------------------------------- user reducers
\* Outcome of a call of user code: a returned value or a raised error.
Ret(v) == [o |-> "ret", v |-> v, err |-> "none"]
Throw(e) == [o |-> "throw", v |-> Undefined, err |-> e]

\* The transition functions supplied by the application.
\*   counter   : initial 0, +1 on INCREMENT
\*   name      : initial "", never changes
\*   strict    : initial 0, raises on BOOM
\*   dropper   : initial 0, returns undefined on BOOM
\*   undefInit : returns its prior state (undefined when there is none)
\*   initOnly  : supplies its initial state for the private init action only
UserReducerIds == {"counter", "name", "strict", "dropper", "undefInit", "initOnly"}

UserReducer(id, state, action) ==
  CASE id = "counter" ->
         IF action.type = "INCREMENT"
         THEN Ret(Num((IF state.k = "num" THEN state.v ELSE 0) + 1))
         ELSE IF state = Undefined THEN Ret(Num(0)) ELSE Ret(state)
    [] id = "name" ->
         IF state = Undefined THEN Ret(Str("")) ELSE Ret(state)
    [] id = "strict" ->
         IF action.type = "BOOM" THEN Throw("ReducerError")
         ELSE IF state = Undefined THEN Ret(Num(0)) ELSE Ret(state)
    [] id = "dropper" ->
         IF action.type = "BOOM" THEN Ret(Undefined)
         ELSE IF state = Undefined THEN Ret(Num(0)) ELSE Ret(state)
    [] id = "undefInit" -> Ret(state)
    [] id = "initOnly" ->
         IF state = Undefined /\ action.type = INIT THEN Ret(Num(0)) ELSE Ret(state)
    [] OTHER -> Throw("NotAFunction")

\* --------------------------------------------------------- combineReducers
\* The argument of combineReducers: the entries of the mapping in key order;
\* `fn` is a user reducer id, or "notfn" / "undefined" for a non-function.
Entry(key, fn) == [key |-> key, fn |-> fn]

NoError == [kind |-> "none", key |-> ""]
ShapeError(kind, key) == [kind |-> kind, key |-> key]

\* finalReducers / finalReducerKeys: the entries whose value is a function.
RECURSIVE FinalReducers(_)
FinalReducers(reducers) ==
  IF reducers = <<>> THEN <<>>
  ELSE IF Head(reducers).fn \in UserReducerIds
       THEN <<Head(reducers)>> \o FinalReducers(Tail(reducers))
       ELSE FinalReducers(Tail(reducers))

\* assertReducerShape without the probe with an unknown action type.
RECURSIVE assertReducerShape_NoProbe(_)
assertReducerShape_NoProbe(reducers) ==
  IF reducers = <<>> THEN NoError
  ELSE LET key == Head(reducers).key
           initialState == UserReducer(Head(reducers).fn, Undefined, Action("plain", INIT))
       IN IF initialState.o = "throw" THEN ShapeError(initialState.err, key)
          ELSE IF initialState.v = Undefined THEN ShapeError("InitUndefined", key)
          ELSE assertReducerShape_NoProbe(Tail(reducers))

\* assertReducerShape: NoError, or the error raised for the first key whose
\* reducer fails the init or the probe invocation.
RECURSIVE assertReducerShape(_)
assertReducerShape(reducers) ==
  IF reducers = <<>> THEN NoError
  ELSE LET key == Head(reducers).key
           reducer == Head(reducers).fn
           initialState == UserReducer(reducer, Undefined, Action("plain", INIT))
           probed == UserReducer(reducer, Undefined, Action("plain", PROBE_UNKNOWN_ACTION))
       IN IF initialState.o = "throw" THEN ShapeError(initialState.err, key)
          ELSE IF initialState.v = Undefined THEN ShapeError("InitUndefined", key)
          ELSE IF probed.o = "throw" THEN ShapeError(probed.err, key)
          ELSE IF probed.v = Undefined THEN ShapeError("ProbeUndefined", key)
          ELSE assertReducerShape(Tail(reducers))

\* What the call combineReducers(reducers) does: it returns the closure
\* `combination` (its captured variables) or raises.
combineReducers(reducers) ==
  LET finalReducers == FinalReducers(reducers)
  IN [o |-> "ret", err |-> "none",
      v |-> [reducers |-> reducers, finalReducers |-> finalReducers,
             shapeAssertionError |-> assertReducerShape(finalReducers)]]

\* state[key] and Object.keys(state).length.
GetKey(state, key) ==
  IF state.k = "obj" /\ key \in DOMAIN state.v THEN state.v[key] ELSE Undefined

KeysLength(state) ==
  IF state.k = "obj" THEN Cardinality(DOMAIN state.v) ELSE 0

\* The for loop of combination from index i on, with the locals hasChanged,
\* nextState and the log of slice-reducer invocations made so far.
RECURSIVE CombinationLoop(_, _, _, _, _, _, _)
CombinationLoop(finalReducers, i, state, action, hasChanged, nextState, calls) ==
  IF i > Len(finalReducers)
  THEN [o |-> "ret", err |-> "none", hasChanged |-> hasChanged,
        nextState |-> nextState, calls |-> calls]
  ELSE LET key == finalReducers[i].key
           previousStateForKey == GetKey(state, key)
           res == UserReducer(finalReducers[i].fn, previousStateForKey, action)
           nextStateForKey == res.v
           log == Append(calls, [key |-> key, prev |-> previousStateForKey])
       IN IF res.o = "throw"
          THEN [o |-> "throw", err |-> res.err, hasChanged |-> hasChanged,
                nextState |-> nextState, calls |-> log]
          ELSE IF nextStateForKey = Undefined
          THEN [o |-> "throw", err |-> "SliceUndefined", hasChanged |-> hasChanged,
                nextState |-> nextState, calls |-> log]
          ELSE CombinationLoop(finalReducers, i + 1, state, action,
                 hasChanged \/ nextStateForKey # previousStateForKey,
                 [k \in DOMAIN nextState \cup {key} |->
                    IF k = key THEN nextStateForKey ELSE nextState[k]],
                 log)

\* combination without the comparison of the key counts.
combination_NoLengthCheck(c, stateArg, action) ==
  LET state == IF stateArg = Undefined THEN EmptyObj ELSE stateArg
  IN IF c.shapeAssertionError # NoError
     THEN [o |-> "throw", err |-> c.shapeAssertionError.kind, v |-> Undefined,
           same |-> FALSE, calls |-> <<>>]
     ELSE LET loop == CombinationLoop(c.finalReducers, 1, state, action, FALSE,
                                      [x \in {} |-> Undefined], <<>>)
              hasChanged == loop.hasChanged
          IN IF loop.o = "throw"
             THEN [o |-> "throw", err |-> loop.err, v |-> Undefined,
                   same |-> FALSE, calls |-> loop.calls]
             ELSE [o |-> "ret", err |-> "none",
                   v |-> IF hasChanged THEN Obj(loop.nextState) ELSE state,
                   same |-> ~hasChanged /\ stateArg # Undefined,
                   calls |-> loop.calls]

\* combination with the final choice inverted: hasChanged ? state : nextState.
combination_Inverted(c, stateArg, action) ==
  LET state == IF stateArg = Undefined THEN EmptyObj ELSE stateArg
  IN IF c.shapeAssertionError # NoError
     THEN [o |-> "throw", err |-> c.shapeAssertionError.kind, v |-> Undefined,
           same |-> FALSE, calls |-> <<>>]
     ELSE LET loop == CombinationLoop(c.finalReducers, 1, state, action, FALSE,
                                      [x \in {} |-> Undefined], <<>>)
              hasChanged == loop.hasChanged
                            \/ Len(c.finalReducers) # KeysLength(state)
          IN IF loop.o = "throw"
             THEN [o |-> "throw", err |-> loop.err, v |-> Undefined,
                   same |-> FALSE, calls |-> loop.calls]
             ELSE [o |-> "ret", err |-> "none",
                   v |-> IF hasChanged THEN state ELSE Obj(loop.nextState),
                   same |-> hasChanged /\ stateArg # Undefined,
                   calls |-> loop.calls]

\* combination(state = {}, action) of the closure c.  `same` tells that the
\* returned object is the very object passed in.
\* A combination that forgets the error recorded at construction.
combination_IgnoresShapeError(c, stateArg, action) ==
  LET state == IF stateArg = Undefined THEN EmptyObj ELSE stateArg
      loop == CombinationLoop(c.finalReducers, 1, state, action, FALSE,
                              [x \in {} |-> Undefined], <<>>)
      hasChanged == loop.hasChanged \/ Len(c.finalReducers) # KeysLength(state)
  IN IF loop.o = "throw"
     THEN [o |-> "throw", err |-> loop.err, v |-> Undefined,
           same |-> FALSE, calls |-> loop.calls]
     ELSE [o |-> "ret", err |-> "none",
           v |-> IF hasChanged THEN Obj(loop.nextState) ELSE state,
           same |-> ~hasChanged /\ stateArg # Undefined,
           calls |-> loop.calls]

combination(c, stateArg, action) ==
  LET state == IF stateArg = Undefined THEN EmptyObj ELSE stateArg
  IN IF c.shapeAssertionError # NoError
     THEN [o |-> "throw", err |-> c.shapeAssertionError.kind, v |-> Undefined,
           same |-> FALSE, calls |-> <<>>]
     ELSE LET loop == CombinationLoop(c.finalReducers, 1, state, action, FALSE,
                                      [x \in {} |-> Undefined], <<>>)
              hasChanged == loop.hasChanged
                            \/ Len(c.finalReducers) # KeysLength(state)
          IN IF loop.o = "throw"
             THEN [o |-> "throw", err |-> loop.err, v |-> Undefined,
                   same |-> FALSE, calls |-> loop.calls]
             ELSE [o |-> "ret", err |-> "none",
                   v |-> IF hasChanged THEN Obj(loop.nextState) ELSE state,
                   same |-> ~hasChanged /\ stateArg # Undefined,
                   calls |-> loop.calls]

\* ------------------------------------------------------------- createStore
VARIABLES
  status,            \* "none", "constructing", "ready" (store returned), "failed"
  currentReducer,    \* let currentReducer
  currentState,      \* let currentState
  heap,              \* the listener arrays ever allocated, by reference
  currentListeners,  \* reference into heap, 0 for null
  nextListeners,     \* reference into heap
  isDispatching,     \* let isDispatching
  handles,           \* per call of subscribe: its listener and isSubscribed
  stack,             \* the call stack of dispatch calls and listener calls
  nDispatch,         \* number of reducer invocations made by dispatch
  ev,                \* the last call or step and its outcome
  reducersArg,       \* argument of the last combineReducers call
  combined,          \* the closure it returned
  combResult,        \* outcome of the last call of that closure
  createArgs,        \* arguments of the last createStore call with an enhancer
  createResult,      \* outcome of that call
  middlewares,       \* applyMiddleware: the middlewares argument
  chain,             \* applyMiddleware: `chain`, the stages built so far
  threaded,          \* compose(...chain)(store.dispatch): stages given their next
  mwDispatch,        \* applyMiddleware: `let dispatch`
  mwPhase,           \* applyMiddleware: where the enhancer is
  mwStack,           \* the running middleware stages and thunks
  mwTrace,           \* call order of the last dispatch through the pipeline
  mwCalls,           \* calls of the composed dispatch made so far
  observed,          \* the calls of observer.next: how many, and the last value
  composeArgs,       \* compose(...funcs)(x): funcs and x of the last call
  composeResult      \* the function compose returned and its value at x

storeVars == <<status, currentReducer, currentState, heap, currentListeners,
               nextListeners, isDispatching, handles, stack, nDispatch, ev>>
combVars == <<reducersArg, combined, combResult>>
createVars == <<createArgs, createResult>>
mwVars == <<middlewares, chain, threaded, mwDispatch, mwPhase, mwStack, mwTrace,
            mwCalls>>
obsVars == <<observed>>
pureVars == <<composeArgs, composeResult>>
otherVars == <<combVars, createVars, mwVars, pureVars>>
restVars == <<otherVars, obsVars>>
vars == <<storeVars, restVars>>

\* A root transition function: a user reducer or a combination closure.
NoComb == [reducers |-> <<>>, finalReducers |-> <<>>, shapeAssertionError |-> NoError]
NoReducer == [kind |-> "none", id |-> "", c |-> NoComb]
NotFunction == [kind |-> "notfn", id |-> "", c |-> NoComb]
Plain(id) == [kind |-> "plain", id |-> id, c |-> NoComb]
Combined(reducers) == [kind |-> "combination", id |-> "", c |-> combineReducers(reducers).v]

\* currentReducer(state, action)
CallReducer(reducer, state, action) ==
  IF reducer.kind = "combination"
  THEN LET r == combination(reducer.c, state, action)
       IN [o |-> r.o, v |-> r.v, err |-> r.err, calls |-> r.calls]
  ELSE LET r == UserReducer(reducer.id, state, action)
       IN [o |-> r.o, v |-> r.v, err |-> r.err, calls |-> <<>>]

\* ---------------------------------------------------------------- inputs
\* The listener functions of the application, and a value that is not a
\* function.  The functions are named in the order of their first subscription.
ListenerNames == <<"L1", "L2">>
Listeners == {ListenerNames[n] : n \in 1..Len(ListenerNames)}
ListenerArgs == Listeners \cup {"notfn"}

\* The closure observeState that observable().subscribe registers for its
\* observer, and every function that can be passed to subscribe.
ObserveState == "observeState"
Functions == Listeners \cup {ObserveState}

INCREMENT == Action("plain", "INCREMENT")
BOOM == Action("plain", "BOOM")
DispatchArgs == {INCREMENT, BOOM, Action("array", "INCREMENT"),
                 Action("plain", "undefined")}

\* The calls createStore(reducer, preloadedState) made by the application.
StoreArgs ==
  {<<Plain("strict"), Num(1)>>,
   <<Plain("undefInit"), Undefined>>,
   <<Combined(<<Entry("counter", "counter"), Entry("name", "name")>>), Undefined>>,
   <<Combined(<<Entry("counter", "counter"), Entry("junk", "notfn"),
                Entry("drop", "dropper")>>),
     Obj([k \in {"counter", "extra"} |-> Num(1)])>>,
   <<Combined(<<Entry("name", "name"), Entry("bad", "undefInit")>>), Undefined>>,
   <<Combined(<<Entry("late", "initOnly")>>), Undefined>>}

\* The stores of the application that replaces its reducer, and the calls
\* replaceReducer(nextReducer) it makes.
ReplaceStoreArgs ==
  {<<Plain("strict"), Num(1)>>,
   <<Combined(<<Entry("counter", "counter"), Entry("name", "name")>>), Undefined>>}

ReplaceArgs ==
  {NotFunction,
   Combined(<<Entry("counter", "counter"), Entry("title", "name")>>),
   Combined(<<Entry("late", "initOnly")>>)}

\* ----------------------------------------------------------------- frames
NoAction == Action("none", "none")

DispatchFrame(action, internal, expected) ==
  [kind |-> "dispatch", phase |-> "reduce", action |-> action,
   reducer |-> currentReducer, prior |-> currentReducer,
   before |-> currentState, internal |-> internal,
   expected |-> expected, listeners |-> 0, i |-> 0, snap |-> <<>>,
   called |-> <<>>, failed |-> FALSE, fn |-> "",
   registered |-> Len(handles), notified |-> {}, raised |-> FALSE]

ListenerFrame(fn) ==
  [kind |-> "listener", phase |-> "", action |-> NoAction,
   reducer |-> NoReducer, prior |-> NoReducer,
   before |-> Undefined, internal |-> "",
   expected |-> <<>>, listeners |-> 0, i |-> 0, snap |-> <<>>,
   called |-> <<>>, failed |-> FALSE, fn |-> fn,
   registered |-> 0, notified |-> {}, raised |-> FALSE]

Top == stack[Len(stack)]
Pop(stk) == SubSeq(stk, 1, Len(stk) - 1)

\* The code that is running: the top-level caller, a reducer, a listener, or
\* the notification loop of dispatch.
RunningOf(stk) ==
  IF stk = <<>> THEN "top"
  ELSE IF stk[Len(stk)].kind = "listener" THEN "listener"
  ELSE IF stk[Len(stk)].phase = "reduce" THEN "reducer"
  ELSE "notify"

Running == RunningOf(stack)

\* The calls of subscribe and dispatch that passed their checks.
Calls == Len(handles) + nDispatch

\* The listener functions passed to subscribe so far, and the next new one.
KnownListeners == {handles[n].listener : n \in 1..Len(handles)}
NextListener ==
  {ListenerNames[n] : n \in {m \in 1..Len(ListenerNames) :
                               m = Cardinality(KnownListeners \ {ObserveState}) + 1}}
SubscribeArgs == KnownListeners \cup NextListener \cup {"notfn"}

\* User code holding the store may call it.
UserCode == status = "ready" /\ Running \in {"top", "listener", "reducer"}

\* The listeners of the registrations whose isSubscribed is still true, in
\* the order of the subscribe calls.
RECURSIVE Subscribed(_)
Subscribed(hs) ==
  IF hs = <<>> THEN <<>>
  ELSE IF Head(hs).isSubscribed
       THEN <<Head(hs).listener>> \o Subscribed(Tail(hs))
       ELSE Subscribed(Tail(hs))

\* ----------------------------------------------------------------- events
\* `ev` is the last step that changed the store or ended a dispatch.  A call
\* that only returns a value or raises leaves `ev` alone: its outcome is a
\* function of the state, given by getState, subscribeCheck, unsubscribeCheck
\* and dispatchCheck.
ReducerRaised(e) ==
  e.op = "dispatch" /\ e.out = "throw" /\ e.raisedBy = "reducer"

Event(op, out, err) ==
  [op |-> op, ctx |-> Running, out |-> out, err |-> err, action |-> NoAction,
   ret |-> NoAction, before |-> currentState,
   handle |-> 0, fn |-> "", raisedBy |-> "", internal |-> "",
   called |-> <<>>, expected |-> <<>>, snap |-> <<>>, sliceCalls |-> <<>>,
   registered |-> 0, notified |-> {}, raised |-> FALSE]

\* A raised error reaches the calling user code; a reducer that does not
\* catch it raises itself.
NoteFailure(stk) ==
  IF stk # <<>> /\ stk[Len(stk)].kind = "dispatch" /\ stk[Len(stk)].phase = "reduce"
  THEN [stk EXCEPT ![Len(stk)].failed = TRUE]
  ELSE stk

\* A reducer or a listener raised: every dispatch call still running has seen
\* a raise inside it.
NoteRaise(stk) ==
  [n \in 1..Len(stk) |->
     IF stk[n].kind = "dispatch" THEN [stk[n] EXCEPT !.raised = TRUE] ELSE stk[n]]

\* A listener is invoked: every dispatch call still running has seen it
\* invoked while the store held `state`.
NoteNotified(stk, fn, state) ==
  [n \in 1..Len(stk) |->
     IF stk[n].kind = "dispatch"
     THEN [stk[n] EXCEPT !.notified = @ \cup {<<fn, state>>}]
     ELSE stk[n]]

\* ---------------------------------------------------------- listener lists
\* The listener arrays are reached through currentListeners, nextListeners and
\* the `listeners` local of each running dispatch; an array none of them
\* references is collected, and the references are kept in allocation order.
Collect(h, cur, nxt, stk) ==
  LET refs == ({cur, nxt} \cup {stk[n].listeners : n \in 1..Len(stk)}) \ {0}
      rank(id) == IF id = 0 THEN 0 ELSE Cardinality({r \in refs : r <= id})
      at(n) == CHOOSE r \in refs : rank(r) = n
  IN [heap |-> [n \in 1..Cardinality(refs) |-> h[at(n)]],
      cur |-> rank(cur),
      next |-> rank(nxt),
      stack |-> [n \in 1..Len(stk) |-> [stk[n] EXCEPT !.listeners = rank(@)]]]

\* The assignments of an action to the listener arrays and the call stack.
Assign(h, cur, nxt, stk) ==
  LET c == Collect(h, cur, nxt, stk)
  IN /\ heap' = c.heap
     /\ currentListeners' = c.cur
     /\ nextListeners' = c.next
     /\ stack' = c.stack

\* ensureCanMutateNextListeners that never copies.
ensureCanMutateNextListeners_NoCopy(h, cur, nxt) == [heap |-> h, next |-> nxt]

\* ensureCanMutateNextListeners: the heap and nextListeners after the call.
ensureCanMutateNextListeners(h, cur, nxt) ==
  IF nxt = cur
  THEN [heap |-> Append(h, h[cur]), next |-> Len(h) + 1]
  ELSE [heap |-> h, next |-> nxt]

\* Array.prototype.indexOf: 0-based index of the first occurrence, or -1.
indexOf(arr, x) ==
  IF \E n \in 1..Len(arr) : arr[n] = x
  THEN (CHOOSE n \in 1..Len(arr) : arr[n] = x /\ \A m \in 1..(n - 1) : arr[m] # x) - 1
  ELSE -1

\* A splice that always removes the last element.
splice1_DropLast(arr, index) == SubSeq(arr, 1, Len(arr) - 1)

\* arr.splice(index, 1); a negative index counts from the end of the array.
splice1(arr, index) ==
  LET start == IF index < 0
               THEN (IF Len(arr) + index < 0 THEN 0 ELSE Len(arr) + index)
               ELSE (IF index > Len(arr) THEN Len(arr) ELSE index)
  IN SubSeq(arr, 1, start) \o SubSeq(arr, start + 2, Len(arr))

\* ---------------------------------------------------------------- getState
\* getState without the isDispatching guard.
getState_NoGuard(dispatching, state) == Ret(state)

getState(dispatching, state) ==
  IF dispatching THEN Throw("GetStateWhileDispatching") ELSE Ret(state)

\* A call of getState by the running user code.
GetState ==
  /\ UserCode
  /\ LET r == getState(isDispatching, currentState)
     IN stack' = IF r.o = "throw" THEN NoteFailure(stack) ELSE stack
  /\ UNCHANGED <<status, currentReducer, currentState, heap, currentListeners,
                 nextListeners, isDispatching, handles, nDispatch, ev, restVars>>

\* --------------------------------------------------------------- subscribe
\* The checks of subscribe before it registers the listener: the error it
\* raises, or "none".
subscribeCheck(listener, dispatching) ==
  IF listener \notin Functions THEN "ListenerNotFunction"
  ELSE IF dispatching THEN "SubscribeWhileDispatching"
  ELSE "none"

Subscribe(listener) ==
  /\ UserCode
  /\ IF subscribeCheck(listener, isDispatching) # "none"
     THEN /\ stack' = NoteFailure(stack)
          /\ UNCHANGED <<heap, currentListeners, nextListeners, handles, ev>>
     ELSE /\ Calls < MaxCalls
          /\ LET e == ensureCanMutateNextListeners(heap, currentListeners, nextListeners)
             IN Assign([e.heap EXCEPT ![e.next] = Append(@, listener)],
                       currentListeners, e.next, stack)
          /\ handles' = Append(handles, [listener |-> listener, isSubscribed |-> TRUE])
          /\ ev' = [Event("subscribe", "ret", "none") EXCEPT
                      !.fn = listener, !.handle = Len(handles) + 1]
  /\ UNCHANGED <<status, currentReducer, currentState, isDispatching, nDispatch,
                 restVars>>

\* ------------------------------------------------------------- unsubscribe
\* An unsubscribe that does not look at isSubscribed.
unsubscribeCheck_NoFlag(isSubscribed, dispatching) ==
  IF dispatching THEN "UnsubscribeWhileDispatching" ELSE "none"

\* The checks of unsubscribe before it removes the listener: "return" when it
\* returns at once, the error it raises, or "none".
unsubscribeCheck(isSubscribed, dispatching) ==
  IF ~isSubscribed THEN "return"
  ELSE IF dispatching THEN "UnsubscribeWhileDispatching"
  ELSE "none"

Unsubscribe(h) ==
  /\ UserCode
  /\ h \in 1..Len(handles)
  /\ LET check == unsubscribeCheck(handles[h].isSubscribed, isDispatching)
     IN IF check = "return"
        THEN UNCHANGED <<heap, currentListeners, nextListeners, handles, stack, ev>>
        ELSE IF check # "none"
        THEN /\ stack' = NoteFailure(stack)
             /\ UNCHANGED <<heap, currentListeners, nextListeners, handles, ev>>
        ELSE /\ handles' = [handles EXCEPT ![h].isSubscribed = FALSE]
             /\ LET e == ensureCanMutateNextListeners(heap, currentListeners, nextListeners)
                    index == indexOf(e.heap[e.next], handles[h].listener)
                IN Assign([e.heap EXCEPT ![e.next] = splice1(@, index)],
                          0, e.next, stack)
             /\ ev' = [Event("unsubscribe", "ret", "none") EXCEPT
                         !.handle = h, !.fn = handles[h].listener]
  /\ UNCHANGED <<status, currentReducer, currentState, isDispatching, nDispatch,
                 restVars>>

\* -------------------------------------------------------------- observable
\* observeState, the listener of an observer that has a next method: it calls
\* observer.next(getState()).  The calls of observer.next after it.
observeState_Stale(listener, obs, dispatching, state) ==
  IF listener = ObserveState /\ getState(dispatching, state).o = "ret"
  THEN [n |-> obs.n + 1, last |-> IF obs.n = 0 THEN state ELSE obs.last]
  ELSE obs

observeState(listener, obs, dispatching, state) ==
  IF listener = ObserveState /\ getState(dispatching, state).o = "ret"
  THEN [n |-> obs.n + 1, last |-> getState(dispatching, state).v]
  ELSE obs

\* observeState raises when its call of getState does.
observeStateRaises(listener, dispatching, state) ==
  listener = ObserveState /\ getState(dispatching, state).o = "throw"

\* The checks of observable().subscribe(observer) before observer.next is
\* called: the error raised, or "none".
observableSubscribeCheck(observer, dispatching, state) ==
  IF observer = "notObject" THEN "ObserverNotObject"
  ELSE IF observeStateRaises(ObserveState, dispatching, state) THEN "GetStateWhileDispatching"
  ELSE "none"

\* The observers of the application: an object with a next method, and a
\* value that is not an object.  The first call of next returns or raises.
ObserverArgs == {"observer", "notObject"}
NextOutcomes == {"ret", "throw"}

\* observable().subscribe(observer): the first delivery, then
\* outerSubscribe(observeState).  The application subscribes one observer.
ObservableSubscribe(observer, first) ==
  /\ UserCode
  /\ ObserveState \notin KnownListeners
  /\ observed.n = 0
  /\ IF observableSubscribeCheck(observer, isDispatching, currentState) # "none"
     THEN /\ stack' = NoteFailure(stack)
          /\ UNCHANGED <<heap, currentListeners, nextListeners, handles, ev, observed>>
     ELSE /\ observed' = observeState(ObserveState, observed, isDispatching, currentState)
          /\ IF first = "throw"
             THEN /\ ev' = Event("observableSubscribe", "throw", "ObserverError")
                  /\ UNCHANGED <<heap, currentListeners, nextListeners, handles, stack>>
             ELSE IF subscribeCheck(ObserveState, isDispatching) # "none"
             THEN /\ stack' = NoteFailure(stack)
                  /\ ev' = Event("observableSubscribe", "throw",
                                 subscribeCheck(ObserveState, isDispatching))
                  /\ UNCHANGED <<heap, currentListeners, nextListeners, handles>>
             ELSE /\ Calls < MaxCalls
                  /\ LET e == ensureCanMutateNextListeners(heap, currentListeners,
                                                           nextListeners)
                     IN Assign([e.heap EXCEPT ![e.next] = Append(@, ObserveState)],
                               currentListeners, e.next, stack)
                  /\ handles' = Append(handles, [listener |-> ObserveState,
                                                 isSubscribed |-> TRUE])
                  /\ ev' = [Event("observableSubscribe", "ret", "none") EXCEPT
                              !.fn = ObserveState, !.handle = Len(handles) + 1]
  /\ UNCHANGED <<status, currentReducer, currentState, isDispatching, nDispatch,
                 otherVars>>

\* ---------------------------------------------------------------- dispatch
\* The checks of dispatch before it calls the reducer: the error it raises,
\* or "none".
dispatchCheck(action, dispatching) ==
  IF ~isPlainObject(action.shape) THEN "NotPlain"
  ELSE IF action.type = "undefined" THEN "UndefinedType"
  ELSE IF dispatching THEN "ReducersMayNotDispatch"
  ELSE "none"

\* dispatch(action) up to the call of the current reducer; `internal` names
\* the engine's own dispatches ("init") and "" a call by user code.
DispatchCall(action, internal) ==
  IF dispatchCheck(action, isDispatching) # "none"
  THEN /\ stack' = NoteFailure(stack)
       /\ UNCHANGED <<isDispatching, nDispatch, ev>>
  ELSE /\ Calls < MaxCalls
       /\ nDispatch' = nDispatch + 1
       /\ isDispatching' = TRUE
       /\ stack' = Append(stack, DispatchFrame(action, internal, Subscribed(handles)))
       /\ ev' = [Event("callReducer", "step", "none") EXCEPT
                   !.action = action, !.internal = internal]

Dispatch(action) ==
  /\ UserCode
  /\ DispatchCall(action, "")
  /\ UNCHANGED <<status, currentReducer, currentState, heap, currentListeners,
                 nextListeners, handles, restVars>>

\* A dispatch that calls the reducer without the state the store holds.
ReducerReturn_IgnoresState ==
  /\ Running = "reducer"
  /\ LET res == CallReducer(Top.reducer, Undefined, Top.action)
     IN /\ res.o = "ret"
        /\ ~Top.failed
        /\ currentState' = res.v
        /\ isDispatching' = FALSE
        /\ Assign(heap, nextListeners, nextListeners,
                  [stack EXCEPT ![Len(stack)] =
                     [@ EXCEPT !.phase = "notify", !.listeners = nextListeners,
                               !.i = 0, !.snap = heap[nextListeners]]])
        /\ ev' = [Event("reducerReturn", "step", "none") EXCEPT
                    !.action = Top.action, !.internal = Top.internal,
                    !.before = Top.before, !.snap = heap[nextListeners],
                    !.sliceCalls = res.calls]
  /\ UNCHANGED <<status, currentReducer, handles, nDispatch, restVars>>

\* A dispatch that notifies its listeners before leaving the dispatching state.
ReducerReturn_StillDispatching ==
  /\ Running = "reducer"
  /\ LET res == CallReducer(Top.reducer, Top.before, Top.action)
     IN /\ res.o = "ret"
        /\ ~Top.failed
        /\ currentState' = res.v
        /\ isDispatching' = TRUE
        /\ Assign(heap, nextListeners, nextListeners,
                  [stack EXCEPT ![Len(stack)] =
                     [@ EXCEPT !.phase = "notify", !.listeners = nextListeners,
                               !.i = 0, !.snap = heap[nextListeners]]])
        /\ ev' = [Event("reducerReturn", "step", "none") EXCEPT
                    !.action = Top.action, !.internal = Top.internal,
                    !.before = Top.before, !.snap = heap[nextListeners],
                    !.sliceCalls = res.calls]
  /\ UNCHANGED <<status, currentReducer, handles, nDispatch, restVars>>

\* The reducer returned: dispatch stores the state, leaves the dispatching
\* state and takes the snapshot `listeners = (currentListeners = nextListeners)`.
ReducerReturn ==
  /\ Running = "reducer"
  /\ LET res == CallReducer(Top.reducer, Top.before, Top.action)
     IN /\ res.o = "ret"
        /\ ~Top.failed
        /\ currentState' = res.v
        /\ isDispatching' = FALSE
        /\ Assign(heap, nextListeners, nextListeners,
                  [stack EXCEPT ![Len(stack)] =
                     [@ EXCEPT !.phase = "notify", !.listeners = nextListeners,
                               !.i = 0, !.snap = heap[nextListeners]]])
        /\ ev' = [Event("reducerReturn", "step", "none") EXCEPT
                    !.action = Top.action, !.internal = Top.internal,
                    !.before = Top.before, !.snap = heap[nextListeners],
                    !.sliceCalls = res.calls]
  /\ UNCHANGED <<status, currentReducer, handles, nDispatch, restVars>>

\* dispatch without the finally block: isDispatching stays set.
ReducerThrow_NoFinally ==
  /\ Running = "reducer"
  /\ LET res == CallReducer(Top.reducer, Top.before, Top.action)
     IN /\ res.o = "throw" \/ Top.failed
        /\ isDispatching' = isDispatching
        /\ stack' = NoteFailure(NoteRaise(Pop(stack)))
        /\ status' = IF Top.internal = "init" THEN "failed" ELSE status
        /\ ev' = [Event("dispatch", "throw",
                        IF res.o = "throw" THEN res.err ELSE "ReducerError") EXCEPT
                    !.ctx = RunningOf(Pop(stack)), !.action = Top.action,
                    !.before = Top.before, !.raisedBy = "reducer",
                    !.internal = Top.internal, !.expected = Top.expected]
  /\ UNCHANGED <<currentReducer, currentState, heap, currentListeners,
                 nextListeners, handles, nDispatch, restVars>>

\* A construction that returns the store although the init dispatch raised.
ReducerThrow_InitIgnored ==
  /\ Running = "reducer"
  /\ LET res == CallReducer(Top.reducer, Top.before, Top.action)
     IN /\ res.o = "throw" \/ Top.failed
        /\ isDispatching' = FALSE
        /\ stack' = NoteFailure(NoteRaise(Pop(stack)))
        /\ status' = IF Top.internal = "init" THEN "ready" ELSE status
        /\ ev' = [Event("dispatch", "throw",
                        IF res.o = "throw" THEN res.err ELSE "ReducerError") EXCEPT
                    !.ctx = RunningOf(Pop(stack)), !.action = Top.action,
                    !.before = Top.before, !.raisedBy = "reducer",
                    !.internal = Top.internal, !.expected = Top.expected]
  /\ UNCHANGED <<currentReducer, currentState, heap, currentListeners,
                 nextListeners, handles, nDispatch, restVars>>

\* A dispatch whose finally block also commits the pending listener list.
ReducerThrow_CommitsListeners ==
  /\ Running = "reducer"
  /\ LET res == CallReducer(Top.reducer, Top.before, Top.action)
     IN /\ res.o = "throw" \/ Top.failed
        /\ isDispatching' = FALSE
        /\ Assign(heap, nextListeners, nextListeners, NoteFailure(NoteRaise(Pop(stack))))
        /\ status' = IF Top.internal = "init" THEN "failed" ELSE status
        /\ ev' = [Event("dispatch", "throw",
                        IF res.o = "throw" THEN res.err ELSE "ReducerError") EXCEPT
                    !.ctx = RunningOf(Pop(stack)), !.action = Top.action,
                    !.before = Top.before, !.raisedBy = "reducer",
                    !.internal = Top.internal, !.expected = Top.expected]
  /\ UNCHANGED <<currentReducer, currentState, handles, nDispatch, restVars>>

\* The reducer raised: the finally block runs and dispatch raises to its caller.
ReducerThrow ==
  /\ Running = "reducer"
  /\ LET res == CallReducer(Top.reducer, Top.before, Top.action)
     IN /\ res.o = "throw" \/ Top.failed
        /\ isDispatching' = FALSE
        /\ stack' = NoteFailure(NoteRaise(Pop(stack)))
        /\ status' = IF Top.internal = "init" THEN "failed" ELSE status
        /\ ev' = [Event("dispatch", "throw",
                        IF res.o = "throw" THEN res.err ELSE "ReducerError") EXCEPT
                    !.ctx = RunningOf(Pop(stack)), !.action = Top.action,
                    !.before = Top.before, !.raisedBy = "reducer",
                    !.internal = Top.internal, !.expected = Top.expected]
  /\ UNCHANGED <<currentReducer, currentState, heap, currentListeners,
                 nextListeners, handles, nDispatch, restVars>>

\* One iteration of the for loop: `listeners[i]()`.
CallListener ==
  /\ Running = "notify"
  /\ Top.i < Len(heap[Top.listeners])
  /\ LET listener == heap[Top.listeners][Top.i + 1]
     IN /\ stack' = Append(NoteNotified([stack EXCEPT ![Len(stack)] =
                                           [@ EXCEPT !.called = Append(@, listener)]],
                                        listener, currentState),
                           [ListenerFrame(listener) EXCEPT
                              !.failed = observeStateRaises(listener, isDispatching,
                                                            currentState)])
        /\ ev' = [Event("callListener", "step", "none") EXCEPT !.fn = listener]
        /\ observed' = observeState(listener, observed, isDispatching, currentState)
  /\ UNCHANGED <<status, currentReducer, currentState, heap, currentListeners,
                 nextListeners, isDispatching, handles, nDispatch, otherVars>>

\* The listener returned: i++.
ListenerReturn ==
  /\ Running = "listener"
  /\ ~Top.failed
  /\ stack' = [Pop(stack) EXCEPT ![Len(stack) - 1].i = @ + 1]
  /\ ev' = [Event("listenerReturn", "step", "none") EXCEPT !.fn = Top.fn]
  /\ UNCHANGED <<status, currentReducer, currentState, heap, currentListeners,
                 nextListeners, isDispatching, handles, nDispatch, restVars>>

\* The listener raised: the loop has no handler, dispatch raises to its caller.
ListenerThrow ==
  /\ Running = "listener"
  /\ LET d == stack[Len(stack) - 1]
         rest == Pop(Pop(stack))
     IN /\ Assign(heap, currentListeners, nextListeners,
                  NoteFailure(NoteRaise(rest)))
        /\ ev' = [Event("dispatch", "throw", "ListenerError") EXCEPT
                    !.ctx = RunningOf(rest), !.action = d.action,
                    !.before = d.before, !.raisedBy = "listener",
                    !.internal = d.internal, !.called = d.called,
                    !.expected = d.expected, !.snap = d.snap]
  /\ UNCHANGED <<status, currentReducer, currentState, isDispatching, handles,
                 nDispatch, restVars>>

\* A dispatch that returns nothing.
DispatchResult_Nothing(action, state) == NoAction

\* What dispatch returns: `return action`.
DispatchResult(action, state) == action

\* The loop is over: dispatch returns.
DispatchReturn ==
  /\ Running = "notify"
  /\ Top.i >= Len(heap[Top.listeners])
  /\ Assign(heap, currentListeners, nextListeners, Pop(stack))
  /\ status' = IF Top.internal = "init" THEN "ready" ELSE status
  /\ ev' = [Event("dispatch", "ret", "none") EXCEPT
              !.ctx = RunningOf(Pop(stack)), !.action = Top.action,
              !.ret = DispatchResult(Top.action, currentState),
              !.before = Top.before, !.internal = Top.internal,
              !.called = Top.called, !.expected = Top.expected,
              !.snap = Top.snap, !.registered = Top.registered,
              !.notified = Top.notified, !.raised = Top.raised]
  /\ UNCHANGED <<currentReducer, currentState, isDispatching, handles,
                 nDispatch, restVars>>

\* ---------------------------------------------------------- replaceReducer
\* A replaceReducer that dispatches without storing the new reducer.
replaceReducer_NoSwap(reducer, nextReducer) == reducer

\* The current reducer after `currentReducer = nextReducer`.
replaceReducer(reducer, nextReducer) == nextReducer

\* The action of the dispatch made by replaceReducer:
\* `{ type: ActionTypes.REPLACE }`.
ReplaceAction == Action("plain", REPLACE)

\* The check of replaceReducer before it stores the reducer: the error it
\* raises, or "none".
replaceReducerCheck(nextReducer) ==
  IF nextReducer.kind \notin {"plain", "combination"} THEN "ReducerNotFunction"
  ELSE "none"

\* The body of replaceReducer(nextReducer), up to the call of the new reducer
\* by the dispatch of the replace action.
ReplaceReducerCall(nextReducer) ==
  /\ IF replaceReducerCheck(nextReducer) # "none"
     THEN /\ stack' = NoteFailure(stack)
          /\ UNCHANGED <<currentReducer, isDispatching, nDispatch, ev>>
     ELSE /\ currentReducer' = replaceReducer(currentReducer, nextReducer)
          /\ IF dispatchCheck(ReplaceAction, isDispatching) # "none"
             THEN /\ stack' = NoteFailure(stack)
                  /\ ev' = [Event("replaceReducer", "throw",
                                  dispatchCheck(ReplaceAction, isDispatching)) EXCEPT
                              !.action = ReplaceAction, !.internal = "replace"]
                  /\ UNCHANGED <<isDispatching, nDispatch>>
             ELSE /\ Calls < MaxCalls
                  /\ isDispatching' = TRUE
                  /\ nDispatch' = nDispatch + 1
                  /\ stack' = Append(stack,
                                [DispatchFrame(ReplaceAction, "replace",
                                               Subscribed(handles)) EXCEPT
                                   !.reducer = currentReducer'])
                  /\ ev' = [Event("callReducer", "step", "none") EXCEPT
                              !.action = ReplaceAction, !.internal = "replace"]
  /\ UNCHANGED <<status, currentState, heap, currentListeners, nextListeners,
                 handles>>

\* replaceReducer(nextReducer) called on the store that createStore returned.
ReplaceReducer(nextReducer) ==
  /\ UserCode
  /\ ReplaceReducerCall(nextReducer)
  /\ UNCHANGED restVars

\* ------------------------------------------------------------- createStore
\* An init dispatch that carries the replace action.
InitAction_Replace == Action("plain", REPLACE)

\* The action of the init dispatch: `{ type: ActionTypes.INIT }`.
InitAction == Action("plain", INIT)

\* createStore(reducer, preloadedState) without an enhancer, up to the call
\* of the reducer by the init dispatch.
CreateStore(reducer, preloadedState) ==
  /\ status = "none"
  /\ status' = "constructing"
  /\ currentReducer' = reducer
  /\ currentState' = preloadedState
  /\ heap' = << <<>> >>
  /\ currentListeners' = 1
  /\ nextListeners' = 1
  /\ isDispatching' = TRUE
  /\ handles' = <<>>
  /\ nDispatch' = 0
  /\ stack' = <<[DispatchFrame(InitAction, "init", <<>>) EXCEPT
                   !.reducer = reducer, !.before = preloadedState]>>
  /\ ev' = [Event("createStore", "step", "none") EXCEPT !.before = preloadedState]
  /\ UNCHANGED restVars

NoEvent ==
  [op |-> "none", ctx |-> "top", out |-> "step", err |-> "none", action |-> NoAction,
   ret |-> NoAction, before |-> Undefined,
   handle |-> 0, fn |-> "", raisedBy |-> "", internal |-> "",
   called |-> <<>>, expected |-> <<>>, snap |-> <<>>, sliceCalls |-> <<>>,
   registered |-> 0, notified |-> {}, raised |-> FALSE]

NotCombined == [o |-> "none", err |-> "none", v |-> NoComb]

NoCombResult == [o |-> "none", err |-> "none", v |-> Undefined, same |-> FALSE,
                 calls |-> <<>>, state |-> Undefined, action |-> NoAction]

NoDispatch == -2

NoObserved == [n |-> 0, last |-> Undefined]

NoCreateResult == [o |-> "none", err |-> "none", v |-> Undefined, calls |-> <<>>]

Init ==
  /\ status = "none"
  /\ currentReducer = NoReducer
  /\ currentState = Undefined
  /\ heap = << <<>> >>
  /\ currentListeners = 1
  /\ nextListeners = 1
  /\ isDispatching = FALSE
  /\ handles = <<>>
  /\ nDispatch = 0
  /\ stack = <<>>
  /\ ev = NoEvent
  /\ reducersArg = <<>>
  /\ combined = NotCombined
  /\ combResult = NoCombResult
  /\ createArgs = <<>>
  /\ createResult = NoCreateResult
  /\ middlewares = <<>>
  /\ chain = <<>>
  /\ threaded = <<>>
  /\ mwDispatch = NoDispatch
  /\ mwPhase = "none"
  /\ mwStack = <<>>
  /\ mwTrace = <<>>
  /\ mwCalls = 0
  /\ observed = NoObserved
  /\ composeArgs = <<>>
  /\ composeResult = <<>>

Next ==
  \/ \E args \in StoreArgs : CreateStore(args[1], args[2])
  \/ GetState
  \/ \E l \in SubscribeArgs : Subscribe(l)
  \/ \E h \in 1..MaxCalls : Unsubscribe(h)
  \/ \E a \in DispatchArgs : Dispatch(a)
  \/ ReducerReturn
  \/ ReducerThrow
  \/ CallListener
  \/ ListenerReturn
  \/ ListenerThrow
  \/ DispatchReturn

Spec == Init /\ [][Next]_vars

\* The application that also replaces the reducer of its store.
NextReplace ==
  \/ \E args \in ReplaceStoreArgs : CreateStore(args[1], args[2])
  \/ GetState
  \/ \E l \in SubscribeArgs : Subscribe(l)
  \/ \E h \in 1..MaxCalls : Unsubscribe(h)
  \/ \E a \in DispatchArgs : Dispatch(a)
  \/ \E r \in ReplaceArgs : ReplaceReducer(r)
  \/ ReducerReturn
  \/ ReducerThrow
  \/ CallListener
  \/ ListenerReturn
  \/ ListenerThrow
  \/ DispatchReturn

SpecReplace == Init /\ [][NextReplace]_vars

\* The application that also subscribes an observer to its store.
ObservableStoreArgs == {<<Plain("counter"), Undefined>>}

NextObservable ==
  \/ \E args \in ObservableStoreArgs : CreateStore(args[1], args[2])
  \/ GetState
  \/ \E l \in SubscribeArgs \ {ObserveState} : Subscribe(l)
  \/ \E observer \in ObserverArgs, first \in NextOutcomes :
       ObservableSubscribe(observer, first)
  \/ \E h \in 1..MaxCalls : Unsubscribe(h)
  \/ \E a \in DispatchArgs : Dispatch(a)
  \/ ReducerReturn
  \/ ReducerThrow
  \/ CallListener
  \/ ListenerReturn
  \/ ListenerThrow
  \/ DispatchReturn

SpecObservable == Init /\ [][NextObservable]_vars

\* The application that uses every operation of its store: one listener
\* function, one observer, and a replacement of the reducer.
FrameReplaceArgs == {NotFunction, Plain("strict")}

NextFrame ==
  \/ \E args \in ObservableStoreArgs : CreateStore(args[1], args[2])
  \/ GetState
  \/ \E l \in {ListenerNames[1], "notfn"} : Subscribe(l)
  \/ \E observer \in ObserverArgs, first \in NextOutcomes :
       ObservableSubscribe(observer, first)
  \/ \E h \in 1..MaxCalls : Unsubscribe(h)
  \/ \E a \in DispatchArgs : Dispatch(a)
  \/ \E r \in FrameReplaceArgs : ReplaceReducer(r)
  \/ ReducerReturn
  \/ ReducerThrow
  \/ CallListener
  \/ ListenerReturn
  \/ ListenerThrow
  \/ DispatchReturn

SpecFrame == Init /\ [][NextFrame]_vars

\* The application that replaces the reducer of its store, also by a combined
\* reducer whose assertReducerShape failed, and has one listener function.
BrokenReplaceArgs ==
  {NotFunction, Plain("strict"),
   Combined(<<Entry("counter", "counter"), Entry("bad", "undefInit")>>)}

NextBroken ==
  \/ \E args \in ObservableStoreArgs : CreateStore(args[1], args[2])
  \/ GetState
  \/ \E l \in {ListenerNames[1]} : Subscribe(l)
  \/ \E h \in 1..MaxCalls : Unsubscribe(h)
  \/ \E a \in DispatchArgs : Dispatch(a)
  \/ \E r \in BrokenReplaceArgs : ReplaceReducer(r)
  \/ ReducerReturn
  \/ ReducerThrow
  \/ CallListener
  \/ ListenerReturn
  \/ ListenerThrow
  \/ DispatchReturn

SpecBroken == Init /\ [][NextBroken]_vars

TypeOK ==
  /\ status \in {"none", "constructing", "ready", "failed"}
  /\ isDispatching \in BOOLEAN
  /\ Calls \in 0..MaxCalls
  /\ nextListeners \in 1..Len(heap)
  /\ currentListeners \in 0..Len(heap)

\* ------------------------------------------- the reducer combinator alone
\* The mappings passed to combineReducers: one entry per key, in key order;
\* "absent" leaves the key out.
KeyNames == <<"counter", "name", "x", "y">>
SliceValues == {"counter", "name", "dropper", "undefInit", "initOnly",
                "notfn", "absent"}

RECURSIVE Entries(_, _)
Entries(f, n) ==
  IF n > MaxKeys THEN <<>>
  ELSE IF f[n] = "absent" THEN Entries(f, n + 1)
       ELSE <<Entry(KeyNames[n], f[n])>> \o Entries(f, n + 1)

CombineArgs == {Entries(f, 1) : f \in [1..MaxKeys -> SliceValues]}

\* The states passed to a combined reducer: undefined, or a mapping of some
\* of the keys.
StateArgs ==
  {Undefined} \cup
  UNION {{Obj(g) : g \in [K -> {Num(1), Str("")}]} :
           K \in SUBSET {KeyNames[n] : n \in 1..MaxKeys}}

ActionArgs == {INCREMENT, BOOM, Action("plain", INIT)}

CombineCall(reducers) ==
  /\ reducersArg' = reducers
  /\ combined' = combineReducers(reducers)
  /\ combResult' = NoCombResult
  /\ UNCHANGED <<storeVars, createVars, mwVars, obsVars, pureVars>>

CombinationCall(state, action) ==
  /\ combined.o = "ret"
  /\ LET r == combination(combined.v, state, action)
     IN combResult' = [o |-> r.o, err |-> r.err, v |-> r.v, same |-> r.same,
                       calls |-> r.calls, state |-> state, action |-> action]
  /\ UNCHANGED <<reducersArg, combined, storeVars, createVars, mwVars, obsVars, pureVars>>

NextCombine ==
  \/ \E reducers \in CombineArgs : CombineCall(reducers)
  \/ \E state \in StateArgs, action \in ActionArgs : CombinationCall(state, action)

SpecCombine == Init /\ [][NextCombine]_vars

\* ------------------------------------------- the arguments of createStore
\* A callable passed as preloadedState, enhancer or fourth argument.
Fun(id) == [k |-> "fn", v |-> id]
IsFunction(x) == x.k = "fn"

\* The value of enhancer(createStore)(reducer, preloadedState): the result
\* of that application, whatever the enhancer is.
Applied(enhancer, reducer, preloadedState) ==
  [k |-> "applied", v |-> <<enhancer.v, reducer, preloadedState>>]

StoreObject == [k |-> "store", v |-> 0]

CreateThrow(err) == [o |-> "throw", err |-> err, v |-> Undefined, calls |-> <<>>]

createStore_NoSwap(reducer, preloadedState, enhancer, fourth) ==
  IF \/ IsFunction(preloadedState) /\ IsFunction(enhancer)
     \/ IsFunction(enhancer) /\ IsFunction(fourth)
  THEN CreateThrow("SeveralEnhancers")
  ELSE LET swap == IsFunction(preloadedState) /\ enhancer = Undefined
           enh == IF swap THEN preloadedState ELSE enhancer
           pre == preloadedState
       IN IF enh # Undefined
          THEN IF ~IsFunction(enh)
               THEN CreateThrow("EnhancerNotFunction")
               ELSE [o |-> "ret", err |-> "none",
                     v |-> Applied(enh, reducer, pre),
                     calls |-> <<enh.v>>]
          ELSE IF reducer.kind = "notfn"
               THEN CreateThrow("ReducerNotFunction")
               ELSE [o |-> "ret", err |-> "none", v |-> StoreObject,
                     calls |-> <<"reducer">>]

\* createStore up to the point where it either raises, hands over to the
\* enhancer, or builds the store itself: the outcome, the value returned and
\* the functions invoked (the reducer is invoked by the initial dispatch).
createStore(reducer, preloadedState, enhancer, fourth) ==
  IF \/ IsFunction(preloadedState) /\ IsFunction(enhancer)
     \/ IsFunction(enhancer) /\ IsFunction(fourth)
  THEN CreateThrow("SeveralEnhancers")
  ELSE LET swap == IsFunction(preloadedState) /\ enhancer = Undefined
           enh == IF swap THEN preloadedState ELSE enhancer
           pre == IF swap THEN Undefined ELSE preloadedState
       IN IF enh # Undefined
          THEN IF ~IsFunction(enh)
               THEN CreateThrow("EnhancerNotFunction")
               ELSE [o |-> "ret", err |-> "none",
                     v |-> Applied(enh, reducer, pre),
                     calls |-> <<enh.v>>]
          ELSE IF reducer.kind = "notfn"
               THEN CreateThrow("ReducerNotFunction")
               ELSE [o |-> "ret", err |-> "none", v |-> StoreObject,
                     calls |-> <<"reducer">>]

\* The arguments the application passes: the second and third are absent, a
\* number, an object or one of two callables; a fourth may be given too.
CreateReducers == {Plain("strict"), NotFunction}
CreateValues == {Undefined, Num(1), EmptyObj, Fun("e1"), Fun("e2")}
FourthValues == {Undefined, Num(1), Fun("e3")}

CreateStoreCall(reducer, preloadedState, enhancer, fourth) ==
  /\ createArgs' = <<reducer, preloadedState, enhancer, fourth>>
  /\ createResult' = createStore(reducer, preloadedState, enhancer, fourth)
  /\ UNCHANGED <<storeVars, combVars, mwVars, obsVars, pureVars>>

NextCreate ==
  \E reducer \in CreateReducers, preloadedState \in CreateValues,
     enhancer \in CreateValues, fourth \in FourthValues :
    CreateStoreCall(reducer, preloadedState, enhancer, fourth)

SpecCreate == Init /\ [][NextCreate]_vars

\* --------------------------------------------------------- applyMiddleware
\* A dispatch function: the placeholder that raises, the store's own
\* dispatch, or the wrapper built by middleware stage i >= 1.
Thrower == -1
BaseDispatch == 0

\* The middlewares of the application.
\*   logger : passes every action to next, once, and returns
\*   thunk  : calls a function-valued action with the capability object's
\*            dispatch and getState; passes any other action to next
\*   free   : calls next and the capability object's dispatch as it likes
MiddlewareKinds == {"logger", "thunk", "free"}
Pipelines == UNION {[1..n -> MiddlewareKinds] : n \in 0..MaxMiddleware}

FunctionAction == Action("function", "undefined")
MwActions == {INCREMENT, FunctionAction}
MwStoreArgs == <<Plain("counter"), Undefined>>

MwEvent(e, stage, action) == [e |-> e, stage |-> stage, action |-> action, err |-> "none"]
MwThrow(err) == [e |-> "throw", stage |-> 0, action |-> NoAction, err |-> err]

\* `let dispatch` before the pipeline is built.
initialDispatch_StoreDispatch == BaseDispatch

initialDispatch == Thrower

\* middlewareAPI.dispatch: calls whatever `dispatch` is at the time of the call.
middlewareAPIDispatch_StoreDispatch(dispatch) == BaseDispatch

middlewareAPIDispatch(dispatch) == dispatch

\* The dispatch of the store that the enhancer returns.
returnedDispatch_StoreDispatch(dispatch) == BaseDispatch

returnedDispatch(dispatch) == dispatch

\* compose(...funcs)(arg): the order in which the functions are applied,
\* each to the result of the one before, the first of them to arg.
compose_LeftToRight(funcs) ==
  IF Len(funcs) = 0 THEN <<>>
  ELSE IF Len(funcs) = 1 THEN <<1>>
  ELSE [k \in 1..Len(funcs) |-> k]

compose(funcs) ==
  IF Len(funcs) = 0 THEN <<>>
  ELSE IF Len(funcs) = 1 THEN <<1>>
  ELSE [k \in 1..Len(funcs) |-> Len(funcs) - k + 1]

\* The value the functions applied so far have produced.
Composed(done) == IF done = <<>> THEN BaseDispatch ELSE done[Len(done)].stage

\* The `next` that stage i was given.
NextOf(i) ==
  LET p == CHOOSE q \in 1..Len(threaded) : threaded[q].stage = i
  IN threaded[p].next

\* A running wrapper `action => ...` of stage i; pc is "body", "thunk" while
\* a function-valued action runs, or "done" once the stage has called next.
StageFrame(i, action) ==
  [stage |-> i, action |-> action,
   pc |-> IF middlewares[i] = "thunk" /\ TypeOf(action.shape) = "function"
          THEN "thunk" ELSE "body"]

\* The store's dispatch called with `action` by the code on top of stk: chk
\* is the outcome of its checks and res that of the reducer.  An error
\* unwinds every caller.
BaseCall(chk, res, action, stk, trace) ==
  IF chk # "none"
  THEN [stack |-> <<>>, state |-> currentState, out |-> "throw",
        trace |-> trace \o <<MwEvent("base", 0, action), MwThrow(chk)>>]
  ELSE IF res.o = "throw"
  THEN [stack |-> <<>>, state |-> currentState, out |-> "throw",
        trace |-> trace \o <<MwEvent("base", 0, action),
                             MwEvent("reducer", 0, action),
                             MwThrow(res.err)>>]
  ELSE [stack |-> stk, state |-> res.v, out |-> "ret",
        trace |-> trace \o <<MwEvent("base", 0, action),
                             MwEvent("reducer", 0, action),
                             MwEvent("baseExit", 0, action)>>]

\* A call of the dispatch function `target` with `action` by the code on top
\* of stk: the placeholder raises, the store's dispatch runs its checks and
\* the reducer, a wrapper starts running.
Invoke(target, action, stk, trace) ==
  IF target = Thrower
  THEN [stack |-> <<>>, state |-> currentState, out |-> "throw",
        trace |-> trace \o <<MwThrow("ConstructingMiddleware")>>]
  ELSE IF target = BaseDispatch
  THEN BaseCall(dispatchCheck(action, isDispatching),
                CallReducer(currentReducer, currentState, action),
                action, stk, trace)
  ELSE [stack |-> Append(stk, StageFrame(target, action)),
        state |-> currentState, out |-> "call",
        trace |-> trace \o <<MwEvent("enter", target, action)>>]

\* The call r has been made: the stack, the trace and the store after it.
Called(r) ==
  /\ mwStack' = r.stack
  /\ mwTrace' = r.trace
  /\ currentState' = r.state

\* The call r has been made while the pipeline was being built.
CalledEarly(r) ==
  /\ mwTrace' = r.trace
  /\ currentState' = r.state
  /\ mwPhase' = IF r.out = "throw" THEN "failed" ELSE mwPhase

MwUnchanged ==
  UNCHANGED <<status, currentReducer, heap, currentListeners, nextListeners,
              isDispatching, handles, stack, nDispatch, ev, combVars, createVars,
              obsVars, pureVars>>

\* applyMiddleware(...middlewares)(createStore)(reducer, preloadedState) up
\* to the placeholder dispatch and the capability object.
ApplyMiddleware(mws) ==
  /\ mwPhase = "none"
  /\ status = "none"
  /\ currentState' = CallReducer(MwStoreArgs[1], MwStoreArgs[2], InitAction).v
  /\ currentReducer' = MwStoreArgs[1]
  /\ status' = "ready"
  /\ middlewares' = mws
  /\ mwDispatch' = initialDispatch
  /\ mwPhase' = "map"
  /\ UNCHANGED <<heap, currentListeners, nextListeners, isDispatching, handles,
                 stack, nDispatch, ev, combVars, createVars, chain, threaded,
                 mwStack, mwTrace, mwCalls, obsVars, pureVars>>

\* middlewares.map: the next middleware is called with the capability object
\* and returns its `next => ...` function.
MiddlewareCall ==
  /\ mwPhase = "map"
  /\ Len(chain) < Len(middlewares)
  /\ chain' = Append(chain, Len(chain) + 1)
  /\ MwUnchanged
  /\ UNCHANGED <<currentState, middlewares, threaded, mwDispatch, mwPhase,
                 mwStack, mwTrace, mwCalls>>

\* middlewares.map is done: compose(...chain)(store.dispatch) starts.
ComposeCall ==
  /\ mwPhase = "map"
  /\ Len(chain) = Len(middlewares)
  /\ mwPhase' = "compose"
  /\ MwUnchanged
  /\ UNCHANGED <<currentState, middlewares, chain, threaded, mwDispatch,
                 mwStack, mwTrace, mwCalls>>

\* The next function of the chain is applied and returns its wrapper.
ThreadStage ==
  /\ mwPhase = "compose"
  /\ Len(threaded) < Len(compose(chain))
  /\ threaded' = Append(threaded,
                        [stage |-> chain[compose(chain)[Len(threaded) + 1]],
                         next |-> Composed(threaded)])
  /\ MwUnchanged
  /\ UNCHANGED <<currentState, middlewares, chain, mwDispatch, mwPhase,
                 mwStack, mwTrace, mwCalls>>

\* A middleware calls the capability object's dispatch while it is being
\* constructed, or while its function is given its next.
EarlyDispatch(action) ==
  /\ \/ mwPhase = "map" /\ Len(chain) < Len(middlewares)
     \/ mwPhase = "compose" /\ Len(threaded) < Len(compose(chain))
  /\ CalledEarly(Invoke(middlewareAPIDispatch(mwDispatch), action, <<>>,
                        <<MwEvent("api",
                                  IF mwPhase = "map" THEN Len(chain) + 1
                                  ELSE chain[compose(chain)[Len(threaded) + 1]],
                                  action)>>))
  /\ MwUnchanged
  /\ UNCHANGED <<middlewares, chain, threaded, mwDispatch, mwStack, mwCalls>>

\* dispatch = compose(...chain)(store.dispatch), and the store is returned.
AssignDispatch ==
  /\ mwPhase = "compose"
  /\ Len(threaded) = Len(compose(chain))
  /\ mwDispatch' = Composed(threaded)
  /\ mwPhase' = "ready"
  /\ mwTrace' = <<>>
  /\ MwUnchanged
  /\ UNCHANGED <<currentState, middlewares, chain, threaded, mwStack, mwCalls>>

MwTop == mwStack[Len(mwStack)]

\* The application calls the dispatch of the store it was given.
StoreDispatch(action) ==
  /\ mwPhase = "ready"
  /\ mwStack = <<>>
  /\ mwCalls < MaxCalls
  /\ mwCalls' = mwCalls + 1
  /\ Called(Invoke(returnedDispatch(mwDispatch), action, <<>>,
                   <<MwEvent("dispatch", 0, action)>>))
  /\ MwUnchanged
  /\ UNCHANGED <<middlewares, chain, threaded, mwDispatch, mwPhase>>

\* The running stage calls next(action); the calls a free stage chooses to
\* make count against the budget, the one call of a logger or thunk does not.
CallNext ==
  /\ mwStack # <<>>
  /\ MwTop.pc = "body"
  /\ IF middlewares[MwTop.stage] = "free"
     THEN mwCalls < MaxCalls /\ mwCalls' = mwCalls + 1
     ELSE mwCalls' = mwCalls
  /\ Called(Invoke(NextOf(MwTop.stage), MwTop.action,
                   [mwStack EXCEPT ![Len(mwStack)].pc =
                      IF middlewares[MwTop.stage] = "free" THEN "body" ELSE "done"],
                   Append(mwTrace, MwEvent("next", MwTop.stage, MwTop.action))))
  /\ MwUnchanged
  /\ UNCHANGED <<middlewares, chain, threaded, mwDispatch, mwPhase>>

\* The running stage, or the function-valued action it is running, calls the
\* capability object's dispatch.
ApiDispatch(action) ==
  /\ mwStack # <<>>
  /\ \/ MwTop.pc = "thunk"
     \/ middlewares[MwTop.stage] = "free"
  /\ mwCalls < MaxCalls
  /\ mwCalls' = mwCalls + 1
  /\ Called(Invoke(middlewareAPIDispatch(mwDispatch), action, mwStack,
                   Append(mwTrace, MwEvent("api", MwTop.stage, action))))
  /\ MwUnchanged
  /\ UNCHANGED <<middlewares, chain, threaded, mwDispatch, mwPhase>>

\* The running stage returns to its caller.
StageReturn ==
  /\ mwStack # <<>>
  /\ \/ MwTop.pc \in {"thunk", "done"}
     \/ middlewares[MwTop.stage] = "free"
  /\ mwStack' = SubSeq(mwStack, 1, Len(mwStack) - 1)
  /\ mwTrace' = Append(mwTrace, MwEvent("exit", MwTop.stage, MwTop.action))
  /\ MwUnchanged
  /\ UNCHANGED <<currentState, middlewares, chain, threaded, mwDispatch,
                 mwPhase, mwCalls>>

NextMiddleware ==
  \/ \E mws \in Pipelines : ApplyMiddleware(mws)
  \/ MiddlewareCall
  \/ ComposeCall
  \/ ThreadStage
  \/ \E action \in MwActions : EarlyDispatch(action)
  \/ AssignDispatch
  \/ \E action \in MwActions : StoreDispatch(action)
  \/ CallNext
  \/ \E action \in MwActions : ApiDispatch(action)
  \/ StageReturn

SpecMiddleware == Init /\ [][NextMiddleware]_vars

\* ------------------------------------------- the store of applyMiddleware
\* The store that the enhancer returns, `{...store, dispatch}`, in use by an
\* application whose middlewares are loggers.
EnhancedPipelines == UNION {[1..n -> {"logger"}] : n \in 0..MaxMiddleware}
EnhancedReplaceArgs == {NotFunction, Plain("strict")}

\* The wrappers made by compose(...chain)(store.dispatch), each with its next.
Threaded(mws) ==
  [k \in 1..Len(compose(mws)) |->
     [stage |-> compose(mws)[k],
      next |-> IF k = 1 THEN BaseDispatch ELSE compose(mws)[k - 1]]]

\* applyMiddleware after `createStore(...args)` has returned: the chain is
\* built and composed, and the store is returned with the composed dispatch.
Enhance(mws) ==
  /\ status = "ready"
  /\ mwPhase = "none"
  /\ middlewares' = mws
  /\ chain' = [i \in 1..Len(mws) |-> i]
  /\ threaded' = Threaded(mws)
  /\ mwDispatch' = Composed(Threaded(mws))
  /\ mwPhase' = "ready"
  /\ UNCHANGED <<storeVars, combVars, createVars, mwStack, mwTrace, mwCalls,
                 obsVars, pureVars>>

\* The stages that a call of the dispatch function `target` with `action`
\* enters, each logger passing the action to its next, down to the store's
\* own dispatch.
RECURSIVE Through(_, _)
Through(target, action) ==
  IF target \in {BaseDispatch, Thrower} THEN <<>>
  ELSE <<MwEvent("enter", target, action)>> \o Through(NextOf(target), action)

\* A replaceReducer that calls the dispatch of the returned store.
replaceDispatch_Returned(dispatch) == dispatch

\* The `dispatch` that replaceReducer calls: the function declared in
\* createStore, whatever the dispatch of the returned store is.
replaceDispatch(dispatch) == BaseDispatch

\* The application calls the dispatch of the returned store.
EnhancedDispatch(action) ==
  /\ UserCode
  /\ mwPhase = "ready"
  /\ mwTrace' = Through(returnedDispatch(mwDispatch), action)
  /\ DispatchCall(action, "")
  /\ UNCHANGED <<status, currentReducer, currentState, heap, currentListeners,
                 nextListeners, handles, combVars, createVars, middlewares,
                 chain, threaded, mwDispatch, mwPhase, mwStack, mwCalls,
                 obsVars, pureVars>>

\* The application calls the replaceReducer of the returned store.
EnhancedReplaceReducer(nextReducer) ==
  /\ UserCode
  /\ mwPhase = "ready"
  /\ mwTrace' = IF replaceReducerCheck(nextReducer) # "none" THEN mwTrace
                ELSE mwTrace \o Through(replaceDispatch(mwDispatch), ReplaceAction)
  /\ ReplaceReducerCall(nextReducer)
  /\ UNCHANGED <<combVars, createVars, middlewares, chain, threaded, mwDispatch,
                 mwPhase, mwStack, mwCalls, obsVars, pureVars>>

\* The application calls the subscribe of the returned store, or a handle.
EnhancedSubscribe(listener) == mwPhase = "ready" /\ Subscribe(listener)
EnhancedUnsubscribe(h) == mwPhase = "ready" /\ Unsubscribe(h)

NextEnhanced ==
  \/ \E args \in ObservableStoreArgs : CreateStore(args[1], args[2])
  \/ \E mws \in EnhancedPipelines : Enhance(mws)
  \/ \E l \in {ListenerNames[1]} : EnhancedSubscribe(l)
  \/ \E h \in 1..MaxCalls : EnhancedUnsubscribe(h)
  \/ \E a \in DispatchArgs : EnhancedDispatch(a)
  \/ \E r \in EnhancedReplaceArgs : EnhancedReplaceReducer(r)
  \/ ReducerReturn
  \/ ReducerThrow
  \/ CallListener
  \/ ListenerReturn
  \/ ListenerThrow
  \/ DispatchReturn

SpecEnhanced == Init /\ [][NextEnhanced]_vars

\* ---------------------------------------------------------------- compose
\* Functions are terms: a function of the application, the identity
\* `arg => arg`, or the closure `(...args) => a(b(...args))` of reduce.
Fn(id) == <<"fn", id>>
Identity == <<"identity">>
Wrap(a, b) == <<"wrap", a, b>>

\* The single-argument functions of the application, on numbers.
FuncIds == {"inc", "dbl", "sq"}
ApplyFunc(id, x) ==
  CASE id = "inc" -> x + 1
    [] id = "dbl" -> 2 * x
    [] OTHER -> x * x

\* f(x) for a function term f.
RECURSIVE Call(_, _)
Call(f, x) ==
  IF f[1] = "identity" THEN x
  ELSE IF f[1] = "fn" THEN ApplyFunc(f[2], x)
  ELSE Call(f[2], Call(f[3], x))

\* rest.reduce((a, b) => (...args) => b(a(...args)), acc)
RECURSIVE ReduceFlipped(_, _)
ReduceFlipped(acc, rest) ==
  IF rest = <<>> THEN acc
  ELSE ReduceFlipped(Wrap(Head(rest), acc), Tail(rest))

\* rest.reduce((a, b) => (...args) => a(b(...args)), acc)
RECURSIVE Reduce(_, _)
Reduce(acc, rest) ==
  IF rest = <<>> THEN acc
  ELSE Reduce(Wrap(acc, Head(rest)), Tail(rest))

composeFuncs_LeftToRight(funcs) ==
  IF Len(funcs) = 0 THEN Identity
  ELSE IF Len(funcs) = 1 THEN funcs[1]
  ELSE ReduceFlipped(funcs[1], Tail(funcs))

\* The function that compose(...funcs) returns.
composeFuncs(funcs) ==
  IF Len(funcs) = 0 THEN Identity
  ELSE IF Len(funcs) = 1 THEN funcs[1]
  ELSE Reduce(funcs[1], Tail(funcs))

FuncLists == UNION {[1..n -> {Fn(id) : id \in FuncIds}] : n \in 0..MaxFuncs}
ComposeInputs == 0..2

ComposeAndCall(funcs, x) ==
  /\ composeArgs' = <<funcs, x>>
  /\ composeResult' = <<composeFuncs(funcs), Call(composeFuncs(funcs), x)>>
  /\ UNCHANGED <<storeVars, combVars, createVars, mwVars, obsVars>>

NextCompose == \E funcs \in FuncLists, x \in ComposeInputs : ComposeAndCall(funcs, x)

SpecCompose == Init /\ [][NextCompose]_vars

\* ================================================================= claims
\* The illegal-operation errors of the store.
IllegalOperationErrors ==
  {"NotPlain", "UndefinedType", "ReducersMayNotDispatch",
   "GetStateWhileDispatching", "SubscribeWhileDispatching",
   "UnsubscribeWhileDispatching"}

ReentrancyErrors ==
  {"ReducersMayNotDispatch", "GetStateWhileDispatching",
   "SubscribeWhileDispatching", "UnsubscribeWhileDispatching"}

\* C1 (as stated): every call of dispatch, subscribe, an unsubscribe handle or
\* getState made from inside the transition function fails with an
\* illegal-operation error, whatever its arguments and whatever the
\* subscription status of the handle.
C1_AsStated ==
  UserCode /\ Running = "reducer" =>
    /\ getState(isDispatching, currentState).o = "throw"
    /\ getState(isDispatching, currentState).err \in IllegalOperationErrors
    /\ \A l \in ListenerArgs :
         subscribeCheck(l, isDispatching) \in IllegalOperationErrors
    /\ \A h \in 1..Len(handles) :
         unsubscribeCheck(handles[h].isSubscribed, isDispatching)
           \in IllegalOperationErrors
    /\ \A a \in DispatchArgs :
         dispatchCheck(a, isDispatching) \in IllegalOperationErrors

\* C1 (amended): a call made from inside the transition function raises the
\* illegal-operation error of its operation, except that subscribe with a
\* non-callable listener raises the listener-type error and that a handle
\* already unsubscribed returns silently; dispatch raises its validation
\* error for a non-plain or untyped action and the re-entrancy error otherwise.
C1_ReentrantCallsFail ==
  UserCode /\ Running = "reducer" =>
    /\ getState(isDispatching, currentState) = Throw("GetStateWhileDispatching")
    /\ \A l \in ListenerArgs :
         subscribeCheck(l, isDispatching) =
           (IF l \in Listeners THEN "SubscribeWhileDispatching"
            ELSE "ListenerNotFunction")
    /\ \A h \in 1..Len(handles) :
         unsubscribeCheck(handles[h].isSubscribed, isDispatching) =
           (IF handles[h].isSubscribed THEN "UnsubscribeWhileDispatching"
            ELSE "return")
    /\ \A a \in DispatchArgs :
         dispatchCheck(a, isDispatching) =
           (IF a.shape # "plain" THEN "NotPlain"
            ELSE IF a.type = "undefined" THEN "UndefinedType"
            ELSE "ReducersMayNotDispatch")

\* A reducer of a store with a subscribed and an unsubscribed handle has made
\* a call that raised.
C1_Witness ==
  /\ status = "ready"
  /\ Running = "reducer"
  /\ Top.failed
  /\ \E h \in 1..Len(handles) : handles[h].isSubscribed
  /\ \E h \in 1..Len(handles) : ~handles[h].isSubscribed

\* Number of occurrences of x in a sequence, and equality as multisets.
Count(seq, x) == Cardinality({n \in 1..Len(seq) : seq[n] = x})
SameBag(a, b) == \A x \in Listeners : Count(a, x) = Count(b, x)

\* No listener function was ever passed to subscribe twice.
DistinctListeners ==
  \A m, n \in 1..Len(handles) : m # n => handles[m].listener # handles[n].listener

IsPrefix(a, b) == Len(a) <= Len(b) /\ a = SubSeq(b, 1, Len(a))

\* C2: a subscribe or unsubscribe made by a listener during the notification
\* pass of a dispatch changes neither the listeners nor the order of that
\* pass (the array being iterated stays as snapshotted and the listeners
\* invoked are a prefix of the snapshot), and every pass that begins later,
\* nested or not, snapshots the registrations in force when it begins.
C2_ListenerSnapshot ==
  /\ \A n \in 1..Len(stack) :
       stack[n].kind = "dispatch" /\ stack[n].phase = "notify" =>
         /\ heap[stack[n].listeners] = stack[n].snap
         /\ IsPrefix(stack[n].called, stack[n].snap)
  /\ ev.op = "reducerReturn" =>
       /\ SameBag(ev.snap, Subscribed(handles))
       /\ DistinctListeners => ev.snap = Subscribed(handles)
  /\ ev.op = "dispatch" /\ ev.out = "ret" => ev.called = ev.snap

\* A nested pass begins with a snapshot that differs from the one of the
\* pass it is nested in, which is still running.
C2_Witness ==
  /\ ev.op = "reducerReturn"
  /\ Len(stack) = 3
  /\ stack[1].phase = "notify"
  /\ stack[1].snap # ev.snap
  /\ Len(stack[1].called) < Len(stack[1].snap)

\* C3: when the transition function raises, the dispatch call leaves the
\* store idle and the state as it was before that dispatch, and the calls
\* that follow are not rejected as re-entrant: getState returns the state
\* held before the failing dispatch.
C3_ReducerRaiseLeavesIdle ==
  ReducerRaised(ev) =>
    /\ ~isDispatching
    /\ currentState = ev.before
    /\ getState(isDispatching, currentState) = Ret(ev.before)
    /\ \A l \in ListenerArgs :
         subscribeCheck(l, isDispatching) \notin ReentrancyErrors
    /\ \A h \in 1..Len(handles) :
         unsubscribeCheck(handles[h].isSubscribed, isDispatching)
           \notin ReentrancyErrors
    /\ \A a \in DispatchArgs :
         dispatchCheck(a, isDispatching) \notin ReentrancyErrors

\* The reducer of a store that holds a state and a subscribed handle raised
\* in a dispatch made by a listener.
C3_Witness ==
  /\ ReducerRaised(ev)
  /\ status = "ready"
  /\ ev.ctx = "listener"
  /\ ev.before # Undefined
  /\ \E h \in 1..Len(handles) : handles[h].isSubscribed

\* The last event ends a dispatch call that had invoked the reducer.
DispatchEnded == ev.op = "dispatch"

C5_DispatchReturnsAction ==
  ev.op = "dispatch" /\ ev.out = "ret" => ev.ret = ev.action

\* A nested dispatch of another action returns while the outer one runs.
C5_Witness ==
  /\ ev.op = "dispatch"
  /\ ev.out = "ret"
  /\ ev.ctx = "listener"
  /\ ev.ret = BOOM
  /\ stack[1].action = INCREMENT

\* The actions that are not a plain mapping or whose type is undefined.
InvalidActions ==
  {a \in DispatchArgs : a.shape # "plain" \/ a.type = "undefined"}

\* C6: dispatching a value that is not a plain mapping, or a mapping whose
\* type is undefined, raises a validation error in every state of the store,
\* and the call invokes no transition function, starts no dispatch and leaves
\* the state unchanged.
C6_InvalidActionRejected ==
  /\ [](\A a \in InvalidActions :
          dispatchCheck(a, isDispatching) =
            (IF a.shape # "plain" THEN "NotPlain" ELSE "UndefinedType"))
  /\ [][\A a \in InvalidActions :
          Dispatch(a) =>
            /\ currentState' = currentState
            /\ isDispatching' = isDispatching
            /\ Len(stack') = Len(stack)
            /\ ev' = ev]_vars

\* A reducer of a store that holds a state has dispatched an invalid action,
\* which raised.
C6_Witness ==
  /\ status = "ready"
  /\ currentState # Undefined
  /\ Running = "reducer"
  /\ Top.failed
  /\ dispatchCheck(Action("array", "INCREMENT"), isDispatching) = "NotPlain"

\* The entries of a combineReducers argument whose value is a function.
Retained(reducers) == SelectSeq(reducers, LAMBDA e : e.fn \in UserReducerIds)

\* The slice of a state at a key.
Slice(s, key) == IF s.k = "obj" /\ key \in DOMAIN s.v THEN s.v[key] ELSE Undefined

\* Every retained slice reducer returns its prior slice for (s, a).
SlicesUnchanged(reducers, s, a) ==
  \A n \in 1..Len(Retained(reducers)) :
    LET e == Retained(reducers)[n]
    IN UserReducer(e.fn, Slice(s, e.key), a).v = Slice(s, e.key)

RetainedKeys(reducers) ==
  {Retained(reducers)[n].key : n \in 1..Len(Retained(reducers))}

\* C7: when no slice reducer returns undefined, the combined reducer returns
\* the very mapping it was given if and only if every retained slice reducer
\* returned its prior slice and the number of retained keys equals the number
\* of keys of the mapping; otherwise it returns a freshly built mapping.
C7_SameStateIffUnchanged ==
  combResult.o = "ret" /\ combResult.state.k = "obj" =>
    LET s == combResult.state
        unchanged == /\ SlicesUnchanged(reducersArg, s, combResult.action)
                     /\ Len(Retained(reducersArg)) = Cardinality(DOMAIN s.v)
    IN /\ combResult.same <=> unchanged
       /\ combResult.same => combResult.v = s
       /\ ~combResult.same =>
            /\ combResult.v.k = "obj"
            /\ DOMAIN combResult.v.v = RetainedKeys(reducersArg)

\* Every slice is unchanged and yet the mapping is rebuilt, because the
\* mapping has another number of keys.
C7_Witness ==
  /\ combResult.o = "ret"
  /\ combResult.state.k = "obj"
  /\ Retained(reducersArg) # <<>>
  /\ SlicesUnchanged(reducersArg, combResult.state, combResult.action)
  /\ ~combResult.same
  /\ combResult.v # combResult.state

CounterName == <<Entry("counter", "counter"), Entry("name", "name")>>
CounterNameState(n) ==
  Obj([k \in {"counter", "name"} |-> IF k = "counter" THEN Num(n) ELSE Str("")])

\* C8: when no slice reducer returns undefined, the combined reducer invokes
\* each retained slice reducer exactly once, in key order, with its prior
\* slice and the action, and the resulting state holds at each retained key
\* the value that reducer returned and has no other key; entries that are not
\* functions are never invoked.  With counter and name combined, one dispatch
\* of INCREMENT yields {counter: 1, name: ""} and notifies a subscribed
\* listener exactly once.
C8_SlicesReduced ==
  /\ ev.op = "reducerReturn" /\ Top.reducer.kind = "combination" =>
       LET kept == Retained(Top.reducer.c.reducers)
       IN /\ ev.sliceCalls =
               [n \in 1..Len(kept) |->
                  [key |-> kept[n].key, prev |-> Slice(ev.before, kept[n].key)]]
          /\ currentState.k = "obj"
          /\ DOMAIN currentState.v = RetainedKeys(Top.reducer.c.reducers)
          /\ \A n \in 1..Len(kept) :
               currentState.v[kept[n].key] =
                 UserReducer(kept[n].fn, Slice(ev.before, kept[n].key), ev.action).v
  /\ ev.op = "reducerReturn" /\ ev.action = INCREMENT
     /\ Top.reducer.c.reducers = CounterName /\ ev.before = CounterNameState(0) =>
       currentState = CounterNameState(1)
  /\ ev.op = "dispatch" /\ ev.out = "ret" /\ ev.action = INCREMENT
     /\ currentReducer.c.reducers = CounterName /\ Len(ev.expected) = 1 =>
       ev.called = ev.expected

C8_Witness ==
  /\ ev.op = "dispatch"
  /\ ev.out = "ret"
  /\ ev.action = INCREMENT
  /\ currentReducer.c.reducers = CounterName
  /\ ev.before = CounterNameState(0)
  /\ currentState = CounterNameState(1)
  /\ ev.called = <<"L1">>

\* A slice reducer that yields undefined for an undefined prior state and the
\* init action, or for an undefined prior state and a probe action.
FailsShape(fn) ==
  \/ UserReducer(fn, Undefined, Action("plain", INIT)).v = Undefined
  \/ UserReducer(fn, Undefined, Action("plain", PROBE_UNKNOWN_ACTION)).v = Undefined

HasBadSlice(reducers) ==
  \E n \in 1..Len(reducers) :
    reducers[n].fn \in UserReducerIds /\ FailsShape(reducers[n].fn)

\* C9 (as stated): if a retained slice reducer yields undefined for the init
\* or the probe invocation, the call of combineReducers itself raises.
C9_AsStated ==
  combined.o # "none" /\ HasBadSlice(reducersArg) => combined.o = "throw"

\* C9 (amended): if a retained slice reducer yields undefined for the init or
\* the probe invocation, combineReducers records the error and returns the
\* combined reducer without raising; every invocation of that combined
\* reducer raises the recorded error before any slice reducer is invoked.
\* Without such a slice reducer no error is recorded.
C9_ShapeErrorDeferred ==
  /\ combined.o # "none" /\ HasBadSlice(reducersArg) =>
       /\ combined.o = "ret"
       /\ combined.v.shapeAssertionError.kind \in {"InitUndefined", "ProbeUndefined"}
       /\ combResult.o # "none" =>
            /\ combResult.o = "throw"
            /\ combResult.err = combined.v.shapeAssertionError.kind
            /\ combResult.calls = <<>>
  /\ combined.o # "none" /\ ~HasBadSlice(reducersArg) =>
       combined.v.shapeAssertionError = NoError

C9_Witness ==
  /\ combined.o = "ret"
  /\ HasBadSlice(reducersArg)
  /\ combined.v.shapeAssertionError.kind = "ProbeUndefined"
  /\ combResult.o = "throw"

\* The init dispatch of a construction without preloaded state has ended.
InitEnded ==
  ev.op = "dispatch" /\ ev.internal = "init" /\ ev.before = Undefined

\* The root yields undefined for (undefined, init action): by itself, or, for
\* a combined reducer, in one of its retained slice reducers.
PlainInitUndefined ==
  /\ currentReducer.kind = "plain"
  /\ UserReducer(currentReducer.id, Undefined, Action("plain", INIT)) = Ret(Undefined)

SliceInitUndefined ==
  /\ currentReducer.kind = "combination"
  /\ \E n \in 1..Len(currentReducer.c.reducers) :
       LET e == currentReducer.c.reducers[n]
       IN /\ e.fn \in UserReducerIds
          /\ UserReducer(e.fn, Undefined, Action("plain", INIT)) = Ret(Undefined)

\* C10 (as stated): if the root transition function yields undefined for an
\* undefined prior state and the init action, constructing a store from it
\* without preloaded state fails and no store is returned.
C10_AsStated ==
  InitEnded /\ (PlainInitUndefined \/ SliceInitUndefined) => status # "ready"

\* C10 (amended): if the root is a combined reducer one of whose retained
\* slice reducers yields undefined for an undefined prior state and the init
\* action, the construction raises and no store is returned; a root that is
\* not combined is not checked: when it yields undefined, the store is
\* returned and its state is undefined.
C10_InitUndefined ==
  /\ InitEnded /\ SliceInitUndefined => status = "failed" /\ ev.out = "throw"
  /\ InitEnded /\ PlainInitUndefined =>
       status = "ready" /\ ev.out = "ret" /\ currentState = Undefined
  /\ status = "ready" => ~SliceInitUndefined

C10_Witness ==
  /\ InitEnded
  /\ SliceInitUndefined
  /\ status = "failed"
  /\ ev.err = "InitUndefined"

\* The last event is the return of the init dispatch of a construction.
InitReturned == ev.op = "dispatch" /\ ev.internal = "init" /\ ev.out = "ret"

\* C11: a construction without an enhancer invokes the transition function
\* once, with the preloaded state and the init action, before any listener is
\* registered or any other dispatch is made; when the store is returned its
\* state, and so the first getState(), is the result of that invocation.
C11_InitDispatchedOnce ==
  /\ status = "constructing" =>
       /\ Len(stack) = 1
       /\ Top.kind = "dispatch"
       /\ Top.action = Action("plain", INIT)
       /\ Top.reducer = currentReducer
       /\ <<currentReducer, Top.before>> \in StoreArgs
       /\ nDispatch = 0
       /\ handles = <<>>
  /\ InitReturned =>
       /\ status = "ready"
       /\ stack = <<>>
       /\ nDispatch = 0
       /\ ev.action = Action("plain", INIT)
       /\ ev.called = <<>>
       /\ <<currentReducer, ev.before>> \in StoreArgs
       /\ currentState = CallReducer(currentReducer, ev.before, ev.action).v
       /\ getState(isDispatching, currentState) = Ret(currentState)

\* A store constructed with a preloaded state has been returned.
C11_Witness ==
  /\ InitReturned
  /\ ev.before # Undefined
  /\ currentState # Undefined

\* The registrations of a listener function made so far.
Registrations(fn) == {h \in 1..Len(handles) : handles[h].listener = fn}

\* C18: an unsubscribe function whose registration is no longer subscribed
\* returns without raising, in every state; the pending list holds each
\* listener function once per registration whose handle has not been invoked
\* (k - j times), the first call of a handle removing exactly one entry; and a
\* dispatch that returns has invoked each listener function once per
\* registration in force when it began.
C18_UnsubscribeIdempotent ==
  /\ \A h \in 1..Len(handles) :
       ~handles[h].isSubscribed =>
         unsubscribeCheck(handles[h].isSubscribed, isDispatching) = "return"
  /\ status \in {"constructing", "ready"} =>
       \A fn \in Listeners :
         Count(heap[nextListeners], fn) =
           Cardinality({h \in Registrations(fn) : handles[h].isSubscribed})
  /\ ev.op = "unsubscribe" =>
       /\ ~handles[ev.handle].isSubscribed
       /\ Len(heap[nextListeners]) = Len(Subscribed(handles))
  /\ ev.op = "dispatch" /\ ev.out = "ret" =>
       \A fn \in Listeners : Count(ev.called, fn) = Count(ev.expected, fn)

\* A listener function registered twice, one of the two handles invoked, has
\* been called once by a later dispatch.
C18_Witness ==
  /\ ev.op = "dispatch"
  /\ ev.out = "ret"
  /\ Cardinality(Registrations("L1")) = 2
  /\ Cardinality({h \in Registrations("L1") : handles[h].isSubscribed}) = 1
  /\ ev.expected = <<"L1">>
  /\ ev.called = <<"L1">>

\* C19: while a listener runs or a notification pass is between two
\* listeners, the dispatching flag is false and no call of getState,
\* subscribe, an unsubscribe handle or dispatch is rejected as re-entrant; a
\* dispatch made by a listener runs above that listener on the call stack, so
\* the pass that invoked the listener invokes no further listener until the
\* nested dispatch, reducer and notification pass, has ended; a nested dispatch
\* that returns has invoked every listener of its snapshot.
C19_NestedDispatchLegal ==
  /\ Running \in {"listener", "notify"} =>
       /\ ~isDispatching
       /\ getState(isDispatching, currentState) = Ret(currentState)
       /\ \A l \in ListenerArgs :
            subscribeCheck(l, isDispatching) \notin ReentrancyErrors
       /\ \A h \in 1..Len(handles) :
            unsubscribeCheck(handles[h].isSubscribed, isDispatching)
              \notin ReentrancyErrors
       /\ \A a \in DispatchArgs :
            dispatchCheck(a, isDispatching) \notin ReentrancyErrors
  /\ \A n \in 1..(Len(stack) - 1) :
       IF stack[n].kind = "dispatch"
       THEN /\ stack[n].phase = "notify"
            /\ stack[n + 1].kind = "listener"
            /\ Len(stack[n].called) = stack[n].i + 1
            /\ stack[n + 1].fn = stack[n].snap[stack[n].i + 1]
       ELSE stack[n + 1].kind = "dispatch"
  /\ ev.op = "dispatch" /\ ev.out = "ret" /\ ev.ctx = "listener" =>
       Running = "listener" /\ ev.called = ev.snap

\* A dispatch made by the first listener of a pass has returned, having
\* notified its listeners, and the second listener of the pass is still to
\* be invoked.
C19_Witness ==
  /\ ev.op = "dispatch"
  /\ ev.out = "ret"
  /\ ev.ctx = "listener"
  /\ ev.called # <<>>
  /\ Len(stack) = 2
  /\ stack[1].called = <<"L1">>
  /\ stack[1].snap = <<"L1", "L2">>

\* C20: when a dispatch called by top-level code returns and no reducer or
\* listener raised inside it, every listener whose registration was made
\* before that dispatch began and is still subscribed has been invoked, by
\* that dispatch or by a dispatch nested in it, at a moment when the store
\* held the state it holds when the dispatch returns.
C20_LatestState ==
  ev.op = "dispatch" /\ ev.out = "ret" /\ ev.ctx = "top" /\ ~ev.raised =>
    /\ getState(isDispatching, currentState) = Ret(currentState)
    /\ \A h \in 1..ev.registered :
         handles[h].isSubscribed =>
           <<handles[h].listener, currentState>> \in ev.notified

\* Two listeners registered before a dispatch are still subscribed when it
\* returns; the first saw an earlier state as well, because the second made
\* a nested dispatch that changed the state.
C20_Witness ==
  /\ ev.op = "dispatch"
  /\ ev.out = "ret"
  /\ ev.ctx = "top"
  /\ ~ev.raised
  /\ ev.registered = 2
  /\ handles[1].isSubscribed
  /\ handles[2].isSubscribed
  /\ handles[1].listener # handles[2].listener
  /\ \E s \in {p[2] : p \in ev.notified} : s # currentState

\* The slice keys of a combined reducer that the state mapping `s` holds and
\* whose slice reducer returns the prior slice for the replace action.
KeptKeys(reducer, s) ==
  {key \in RetainedKeys(reducer.c.reducers) \cap DOMAIN s.v :
     \A n \in 1..Len(Retained(reducer.c.reducers)) :
       LET e == Retained(reducer.c.reducers)[n]
       IN e.key = key => UserReducer(e.fn, s.v[key], ReplaceAction) = Ret(s.v[key])}

\* C13: replaceReducer(next) that passes its checks makes `next` the current
\* reducer and calls it with the state held and the replace action; when that
\* call returns the state is its result, and when the replace dispatch
\* returns each listener function has been notified once per registration in
\* force.  Every reducer call of a dispatch is a call of the reducer that is
\* current at that time, so that after the replacement the old reducer is not
\* called again.  When the state was a mapping and `next` is a combined
\* reducer, each key of both whose slice reducer returns its prior slice
\* keeps its value.
C13_ReplaceReducer ==
  /\ [](/\ ev.op \in {"callReducer", "reducerReturn"} => Top.reducer = currentReducer
        /\ ev.op = "reducerReturn" =>
             currentState = CallReducer(currentReducer, ev.before, ev.action).v
        /\ ev.op = "reducerReturn" /\ ev.internal = "replace" =>
             /\ ev.action = Action("plain", REPLACE)
             /\ currentReducer.kind = "combination" /\ ev.before.k = "obj" =>
                  \A key \in KeptKeys(currentReducer, ev.before) :
                    currentState.v[key] = ev.before.v[key]
        /\ ev.op = "dispatch" /\ ev.internal = "replace" /\ ev.out = "ret" =>
             \A fn \in Listeners : Count(ev.called, fn) = Count(ev.expected, fn))
  /\ [][\A r \in ReplaceArgs :
          (/\ replaceReducerCheck(r) = "none"
           /\ dispatchCheck(Action("plain", REPLACE), isDispatching) = "none"
           /\ ReplaceReducer(r)) =>
            /\ currentReducer' = r
            /\ stack'[Len(stack')].reducer = r
            /\ stack'[Len(stack')].before = currentState
            /\ stack'[Len(stack')].action = Action("plain", REPLACE)]_vars

\* The reducer of a store holding {counter: 1, name: ""} has been replaced by
\* the combination of counter and title, and the subscribed listener has been
\* notified once.
C13_Witness ==
  /\ ev.op = "dispatch"
  /\ ev.internal = "replace"
  /\ ev.out = "ret"
  /\ ev.before = CounterNameState(1)
  /\ currentState =
       Obj([k \in {"counter", "title"} |-> IF k = "counter" THEN Num(1) ELSE Str("")])
  /\ ev.called = <<"L1">>


\* C12: createStore(reducer, x, y) raises, invoking neither the reducer nor a
\* callable, when x and y are both callable; when x is callable and y is
\* absent it returns exactly x(createStore)(reducer, undefined), x being the
\* only function invoked; a defined y that is not callable raises.
C12_ArgumentDisambiguation ==
  createArgs # <<>> =>
    LET reducer == createArgs[1]
        x == createArgs[2]
        y == createArgs[3]
    IN /\ IsFunction(x) /\ IsFunction(y) =>
            /\ createResult.o = "throw"
            /\ createResult.err = "SeveralEnhancers"
            /\ createResult.calls = <<>>
       /\ IsFunction(x) /\ y = Undefined =>
            /\ createResult.o = "ret"
            /\ createResult.v = Applied(x, reducer, Undefined)
            /\ createResult.calls = <<x.v>>
       /\ y # Undefined /\ ~IsFunction(y) =>
            /\ createResult.o = "throw"
            /\ createResult.calls = <<>>

C12_Witness ==
  /\ createArgs # <<>>
  /\ IsFunction(createArgs[2])
  /\ createArgs[3] = Undefined
  /\ createResult.o = "ret"
  /\ createResult.v = Applied(createArgs[2], createArgs[1], Undefined)

\* The trace of a dispatch of action a that every one of n stages passes on
\* once: in through stages 1..n to the store's dispatch, out through n..1.
Onion(n, a) ==
  [q \in 1..(3 * n + 4) |->
     IF q = 1 THEN MwEvent("dispatch", 0, a)
     ELSE IF q <= 2 * n + 1
          THEN IF q % 2 = 0 THEN MwEvent("enter", q \div 2, a)
               ELSE MwEvent("next", q \div 2, a)
     ELSE IF q = 2 * n + 2 THEN MwEvent("base", 0, a)
     ELSE IF q = 2 * n + 3 THEN MwEvent("reducer", 0, a)
     ELSE IF q = 2 * n + 4 THEN MwEvent("baseExit", 0, a)
     ELSE MwEvent("exit", 3 * n + 5 - q, a)]

\* What a call made with action a enters first when it goes to stage i, or to
\* the store's dispatch when there is no such stage.
Entered(i, a) ==
  IF i <= Len(middlewares) THEN MwEvent("enter", i, a) ELSE MwEvent("base", 0, a)

NextCallsBy(i) ==
  Len(SelectSeq(mwTrace, LAMBDA x : x.e = "next" /\ x.stage = i))

\* C14: the composed dispatch enters m1's wrapper first, mi calling next
\* enters m(i+1)'s wrapper, mn calling next invokes the store's dispatch, and
\* control returns in the reverse order: call order m1, ..., mn, d.
C14_MiddlewareOrder ==
  mwPhase = "ready" =>
    /\ \A q \in 1..(Len(mwTrace) - 1) :
         /\ mwTrace[q].e = "dispatch" =>
              mwTrace[q + 1] = Entered(1, mwTrace[q].action)
         /\ mwTrace[q].e = "next" =>
              mwTrace[q + 1] = Entered(mwTrace[q].stage + 1, mwTrace[q].action)
    /\ \A q \in 1..Len(mwTrace) :
         mwTrace[q].e \in {"dispatch", "next"} => q < Len(mwTrace)
    /\ ( /\ mwStack = <<>>
         /\ mwTrace # <<>>
         /\ \A q \in 1..Len(mwTrace) : mwTrace[q].e \notin {"api", "throw"}
         /\ \A i \in 1..Len(middlewares) : NextCallsBy(i) = 1 )
       => mwTrace = Onion(Len(middlewares), mwTrace[1].action)

C14_Witness ==
  /\ mwPhase = "ready"
  /\ Len(middlewares) = 2
  /\ mwStack = <<>>
  /\ mwTrace = Onion(2, INCREMENT)

\* The state of the store when createStore has returned it to the enhancer.
MwInitialState == CallReducer(MwStoreArgs[1], MwStoreArgs[2], InitAction).v

\* C15: until the composed dispatch has been built, a call of the capability
\* object's dispatch, by a middleware under construction or by a stage that
\* is being given its next, raises, reaches neither the store's dispatch nor
\* the reducer, and leaves the state of the store unchanged.
C15_DispatchWhileConstructing ==
  mwPhase \in {"map", "compose", "failed"} =>
    /\ \A q \in 1..Len(mwTrace) :
         /\ mwTrace[q].e \notin {"enter", "base", "reducer"}
         /\ mwTrace[q].e = "api" =>
              /\ q < Len(mwTrace)
              /\ mwTrace[q + 1] = MwThrow("ConstructingMiddleware")
    /\ mwTrace # <<>> => mwPhase = "failed"
    /\ currentState = MwInitialState
    /\ mwCalls = 0

C15_Witness ==
  /\ mwPhase = "failed"
  /\ Len(middlewares) = 2
  /\ Len(chain) = 2
  /\ Len(threaded) = 1
  /\ mwTrace = <<MwEvent("api", 1, INCREMENT), MwThrow("ConstructingMiddleware")>>
  /\ currentState = MwInitialState

\* C16: once the store has been built, a call of the capability object's
\* dispatch by any stage mi goes to the composed dispatch: the action enters
\* the outermost stage m1, whatever i is, and not a stage downstream of mi.
C16_ApiDispatchComposed ==
  mwPhase = "ready" =>
    \A q \in 1..Len(mwTrace) :
      mwTrace[q].e = "api" =>
        /\ q < Len(mwTrace)
        /\ mwTrace[q + 1] = MwEvent("enter", 1, mwTrace[q].action)

C16_Witness ==
  /\ mwPhase = "ready"
  /\ \E q \in 1..(Len(mwTrace) - 3) :
       /\ mwTrace[q] = MwEvent("api", 2, INCREMENT)
       /\ mwTrace[q + 1] = MwEvent("enter", 1, INCREMENT)
       /\ mwTrace[q + 2] = MwEvent("next", 1, INCREMENT)
       /\ mwTrace[q + 3] = MwEvent("enter", 2, INCREMENT)

\* C17: with middlewares [logger, thunkLike] neither the store's dispatch nor
\* the reducer is ever invoked with a function-valued action: thunkLike does
\* not call next for it, and the reducer sees only plain actions that were
\* dispatched, by the application or by such a function.
C17_ThunkStopsFunctions ==
  middlewares = <<"logger", "thunk">> =>
    \A q \in 1..Len(mwTrace) :
      /\ mwTrace[q].e \in {"base", "reducer"} =>
           /\ TypeOf(mwTrace[q].action.shape) # "function"
           /\ \E p \in 1..(q - 1) :
                /\ mwTrace[p].e \in {"dispatch", "api"}
                /\ mwTrace[p].action = mwTrace[q].action
      /\ mwTrace[q].e = "next" /\ mwTrace[q].stage = 2 =>
           TypeOf(mwTrace[q].action.shape) # "function"

C17_Witness ==
  /\ middlewares = <<"logger", "thunk">>
  /\ mwStack = <<>>
  /\ Len(mwTrace) = 16
  /\ mwTrace[1] = MwEvent("dispatch", 0, FunctionAction)
  /\ mwTrace[5] = MwEvent("api", 2, INCREMENT)
  /\ mwTrace[11] = MwEvent("reducer", 0, INCREMENT)
  /\ currentState = Num(MwInitialState.v + 1)

\* The subscription of the observer: registered, in force, ended.
ObserverHandles == {h \in 1..Len(handles) : handles[h].listener = ObserveState}
ObserverSubscribed == \E h \in ObserverHandles : handles[h].isSubscribed
ObserverUnsubscribed == \E h \in ObserverHandles : ~handles[h].isSubscribed

\* The parts of C21 that the code keeps: the first delivery, one delivery of
\* the current state in each completed dispatch whose snapshot holds the
\* subscription, and a snapshot that holds it exactly while it is in force.
ObservableDelivers ==
  /\ ev.op = "observableSubscribe" =>
       /\ observed = [n |-> 1, last |-> currentState]
       /\ ev.out = "ret" => ObserverSubscribed
  /\ ev.op = "reducerReturn" =>
       (Count(ev.snap, ObserveState) = 1 <=> ObserverSubscribed)
  /\ ev.op = "callListener" /\ ev.fn = ObserveState =>
       /\ observed.n >= 2
       /\ observed.last = currentState
       /\ Count(stack[Len(stack) - 1].snap, ObserveState) = 1
  /\ ev.op = "dispatch" /\ ev.out = "ret" =>
       /\ Count(ev.called, ObserveState) = Count(ev.snap, ObserveState)
       /\ Count(ev.snap, ObserveState) <= 1
  /\ ObserverHandles = {} => observed.n <= 1

C22_StateOnlyThroughDispatch ==
  /\ [](Running = "reducer" => Top.before = currentState)
  /\ [][(status # "none" /\ currentState' # currentState) =>
          /\ Running = "reducer"
          /\ CallReducer(Top.reducer, currentState, Top.action).o = "ret"
          /\ currentState' = CallReducer(Top.reducer, currentState, Top.action).v
          /\ ev'.op = "reducerReturn"]_vars
  /\ [][(ev'.op = "callReducer" /\ stack' # stack) =>
          /\ stack'[Len(stack')].reducer = currentReducer'
          /\ stack'[Len(stack')].before = currentState'
          /\ currentState' = currentState]_vars
  /\ [][(status # "none" /\ currentReducer' # currentReducer) =>
          \E r \in FrameReplaceArgs :
            replaceReducerCheck(r) = "none" /\ ReplaceReducer(r)]_vars
  /\ [][(\/ GetState
         \/ \E l \in {ListenerNames[1], "notfn"} : Subscribe(l)
         \/ \E h \in 1..MaxCalls : Unsubscribe(h)
         \/ \E observer \in ObserverArgs, first \in NextOutcomes :
              ObservableSubscribe(observer, first))
        => /\ currentState' = currentState
           /\ currentReducer' = currentReducer]_vars

\* The state was replaced by the replace dispatch of a store with an observer.
C22_Witness ==
  /\ ev.op = "reducerReturn"
  /\ ev.internal = "replace"
  /\ currentReducer = Plain("strict")
  /\ currentState = Num(1)
  /\ ObserverSubscribed

\* f1(f2(...fn(x)...)) for the functions f1..fn of the application.
RECURSIVE RightToLeft(_, _)
RightToLeft(funcs, x) ==
  IF funcs = <<>> THEN x
  ELSE ApplyFunc(Head(funcs)[2], RightToLeft(Tail(funcs), x))

\* C23: compose(f1, ..., fn)(x) = f1(f2(...fn(x)...)); compose() is the
\* identity function, and compose(f) returns f itself, not a wrapper.
C23_ComposeRightToLeft ==
  composeArgs # <<>> =>
    /\ composeResult[2] = RightToLeft(composeArgs[1], composeArgs[2])
    /\ Len(composeArgs[1]) = 0 =>
         /\ composeResult[1] = Identity
         /\ composeResult[2] = composeArgs[2]
    /\ Len(composeArgs[1]) = 1 => composeResult[1] = composeArgs[1][1]

\* compose(inc, dbl, sq)(2) = inc(dbl(sq(2))) = 9, where the other order
\* sq(dbl(inc(2))) is 36.
C23_Witness ==
  /\ composeArgs = << <<Fn("inc"), Fn("dbl"), Fn("sq")>>, 2 >>
  /\ composeResult[2] = 9

\* ---------------------------------------------------------------- C24
\* A combined reducer that recorded an error of assertReducerShape.
BrokenReducer(reducer) ==
  /\ reducer.kind = "combination"
  /\ reducer.c.shapeAssertionError # NoError

\* Every invocation of the closure c raises the recorded error and has
\* called no slice reducer.
AlwaysRaisesRecorded(c) ==
  \A state \in StateArgs \cup {currentState}, action \in ActionArgs \cup DispatchArgs :
    LET r == combination(c, state, action)
    IN /\ r.o = "throw"
       /\ r.err = c.shapeAssertionError.kind
       /\ r.calls = <<>>

\* C24: a combined reducer whose assertReducerShape failed raises the recorded
\* error on every invocation, for every state and action, before any slice
\* reducer is called; a dispatch that begins with it as the store's reducer
\* calls that reducer, ends by raising the recorded error, and the state never changes
\* while it runs.
C24_BrokenCombination ==
  /\ [](BrokenReducer(currentReducer) => AlwaysRaisesRecorded(currentReducer.c))
  /\ [][(/\ BrokenReducer(currentReducer')
         /\ Len(stack') > Len(stack)
         /\ RunningOf(stack') = "reducer")
        => BrokenReducer(stack'[Len(stack')].reducer)]_vars
  /\ [][(Running = "reducer" /\ BrokenReducer(Top.reducer))
        => /\ currentState' = currentState
           /\ RunningOf(stack') # "reducer"
              => /\ ev'.op = "dispatch"
                 /\ ev'.out = "throw"
                 /\ ev'.err = Top.reducer.c.shapeAssertionError.kind
                 /\ ev'.sliceCalls = <<>>]_vars

\* A dispatch of an application action on a store whose reducer was replaced
\* by a broken combined reducer has raised the recorded error.
C24_Witness ==
  /\ BrokenReducer(currentReducer)
  /\ ev.op = "dispatch"
  /\ ev.out = "throw"
  /\ ev.internal = ""
  /\ ev.action = INCREMENT
  /\ ev.raisedBy = "reducer"
  /\ ev.err = "InitUndefined"
  /\ currentState = Num(1)

\* ---------------------------------------------------------------- C25
\* replaceReducer(r) raises before it returns to its caller without having
\* called the new reducer.
RaisesAtOnce(r) ==
  \/ replaceReducerCheck(r) # "none"
  \/ dispatchCheck(ReplaceAction, isDispatching) # "none"

\* The reducer called by the dispatch of a replaceReducer call raises.
ReplaceRaises ==
  /\ Running = "reducer"
  /\ Top.internal = "replace"
  /\ Len(stack') < Len(stack)

\* C25 as stated: a replaceReducer call that raises (argument not callable,
\* store dispatching, or the new reducer raising on the replace action) leaves
\* the reducer that was current before the call.
C25_AsStated ==
  /\ [][\A r \in BrokenReplaceArgs :
          RaisesAtOnce(r) /\ ReplaceReducer(r) => currentReducer' = currentReducer]_vars
  /\ [][ReplaceRaises => currentReducer' = Top.prior]_vars

\* C25 amended: a replaceReducer call whose argument is not callable leaves the
\* current reducer; a call that passes this check stores its argument at
\* once, and neither a raise of the replace dispatch because the store is
\* dispatching nor a raise of the new reducer restores the old reducer; every
\* later dispatch calls the reducer that is current when it begins.
C25_SwapNotUndone ==
  /\ [][\A r \in BrokenReplaceArgs :
          ReplaceReducer(r) =>
            /\ replaceReducerCheck(r) # "none" => currentReducer' = currentReducer
            /\ replaceReducerCheck(r) = "none" => currentReducer' = r
            /\ replaceReducerCheck(r) = "none" /\ isDispatching =>
                 /\ Len(stack') = Len(stack)
                 /\ ev'.op = "replaceReducer"
                 /\ ev'.out = "throw"]_vars
  /\ [][ReplaceRaises =>
          /\ currentReducer' = currentReducer
          /\ ~Top.failed => currentReducer' = Top.reducer
          /\ ev'.op = "dispatch"
          /\ ev'.out = "throw"]_vars
  /\ [][Len(stack') > Len(stack) /\ RunningOf(stack') = "reducer"
        => stack'[Len(stack')].reducer = currentReducer']_vars

\* A replaceReducer call has raised because the new combined reducer raised on
\* the replace action, and the store holds the new reducer.
C25_Witness ==
  /\ ev.op = "dispatch"
  /\ ev.internal = "replace"
  /\ ev.out = "throw"
  /\ ev.raisedBy = "reducer"
  /\ stack = <<>>
  /\ BrokenReducer(currentReducer)
  /\ currentState = Num(2)

\* ---------------------------------------------------------------- C26
PrivateTypes == {INIT, REPLACE}

\* C26: in the store returned by applyMiddleware no stage is entered with the
\* init or the replace action: the init dispatch of createStore and the
\* dispatch of replaceReducer begin in the store's own dispatch without any
\* stage being entered, and when they return each listener function has been
\* notified once per registration in force.
C26_PrivateBypassPipeline ==
  /\ [](\A i \in 1..Len(mwTrace) :
          mwTrace[i].e = "enter" => mwTrace[i].action.type \notin PrivateTypes)
  /\ [][(/\ Len(stack') > Len(stack)
         /\ RunningOf(stack') = "reducer"
         /\ stack'[Len(stack')].internal \in {"init", "replace"})
        => /\ mwTrace' = mwTrace
           /\ stack'[Len(stack')].action.type \in PrivateTypes]_vars
  /\ [][(/\ Len(stack') > Len(stack)
         /\ RunningOf(stack') = "reducer"
         /\ stack'[Len(stack')].action.type \in PrivateTypes)
        => stack'[Len(stack')].internal \in {"init", "replace"}]_vars
  /\ [](ev.op = "dispatch" /\ ev.internal \in {"init", "replace"} /\ ev.out = "ret"
        => \A fn \in Listeners : Count(ev.called, fn) = Count(ev.expected, fn))

\* The store has two stages, which a dispatch of INCREMENT entered, and the
\* replace dispatch that followed has returned after notifying the listener
\* without entering a stage.
C26_Witness ==
  /\ mwPhase = "ready"
  /\ Len(middlewares) = 2
  /\ mwTrace = <<MwEvent("enter", 1, INCREMENT), MwEvent("enter", 2, INCREMENT)>>
  /\ currentReducer = Plain("strict")
  /\ ev.op = "dispatch"
  /\ ev.internal = "replace"
  /\ ev.out = "ret"
  /\ ev.called = <<ListenerNames[1]>>

\* ---------------------------------------------------------------- C27
\* The committed and the pending listener list stay the same arrays with the
\* same elements.
ListenerListsUnchanged == UNCHANGED <<heap, currentListeners, nextListeners>>

\* C27: a dispatch call that raises in its checks (action not plain, type
\* undefined, store dispatching) calls no listener and leaves currentListeners
\* and nextListeners as they were; a dispatch call leaves them as they were up
\* to the return of the reducer, calls no listener before it, and when the
\* reducer raises it has called no listener.
C27_FailedDispatchFrame ==
  /\ [][\A a \in DispatchArgs :
          Dispatch(a) =>
            /\ ListenerListsUnchanged
            /\ dispatchCheck(a, isDispatching) # "none" =>
                 /\ Len(stack') = Len(stack)
                 /\ ev' = ev]_vars
  /\ [][Running = "reducer" =>
          /\ Len(stack') <= Len(stack)
          /\ Top.called = <<>>
          /\ Top.notified = {}
          /\ RunningOf(stack') = "reducer" \/ Len(stack') < Len(stack)
               => ListenerListsUnchanged
          /\ Len(stack') < Len(stack) =>
               /\ ev'.op = "dispatch"
               /\ ev'.out = "throw"
               /\ ev'.raisedBy = "reducer"
               /\ ev'.called = <<>>]_vars

\* A dispatch made after a listener was registered has raised in the reducer:
\* the pending list still holds the listener and the committed one is still
\* empty.
C27_Witness ==
  /\ ev.op = "dispatch"
  /\ ev.out = "throw"
  /\ ev.raisedBy = "reducer"
  /\ ev.internal = ""
  /\ ev.action = INCREMENT
  /\ currentListeners # 0
  /\ currentListeners # nextListeners
  /\ heap[nextListeners] = <<ListenerNames[1]>>
  /\ heap[currentListeners] = <<>>

============================================================================
